---- MODULE Spec2Model ----
(***************************************************************************)
(* Write path of the elephant document repository: PGDocStore.Update and   *)
(* PGDocStore.Delete (src/postgres/query.sql.go) running as READ COMMITTED *)
(* transactions over the tables document, document_version,                *)
(* document_status, status_heads, acl, acl_audit and delete_record,        *)
(* together with the archiver and the deleter workers that use the         *)
(* queries of the same file.                                               *)
(*                                                                         *)
(* lock[u] is the row lock of the document row u (SELECT ... FOR UPDATE,   *)
(* or the lock the first write of a row of u takes).  A call is three      *)
(* steps, at the points where other transactions can tell it apart: the    *)
(* call itself, updatePreflight (which takes the lock when the row         *)
(* exists), and the statements from there to Commit or rollback.  Between  *)
(* its first write and its Commit a transaction holds the lock and its     *)
(* writes are invisible (READ COMMITTED), so these statements are taken    *)
(* in one step: they build the writes of the transaction, which Commit     *)
(* applies to the tables and a rollback drops.  A statement that needs a   *)
(* lock another transaction holds waits for the holder to end.             *)
(***************************************************************************)
EXTENDS Integers, Sequences, FiniteSets, TLC

(* ---------------- bounds ---------------- *)
\* Spec: versions of a document, ids of a status name
MaxVersion == 1
MaxStatusID == 1
\* SpecRace
RaceVersions == 2
RaceStatusID == 1
\* SpecArchive
ArchiveVersions == 2
ArchiveStatusID == 2
\* SpecACL
ACLVersions == 1
ACLStatusID == 1
\* SpecDelete
DeleteVersions == 2
MaxDeletes == 1
MaxAudit == 2
\* SpecNotify, SpecSchema: notifications sent, connection errors of the listener
MaxEvents == 2
MaxLosses == 1

Clients == {"c1", "c2"}
Workers == {"a1", "a2"}
UUIDs == {"u1"}
Names == {"usable", "done"}
Grantees == {"alice", "bob"}
Permissions == {"r", "w"}
Subs == {"s1", "s2"}
Schemas == {"core", "extra"}
SchemaVersions == {"v1", "v2"}
\* the notification channels
NotifyArchived == "archived"
NotifySchemasUpdated == "schemas_updated"

None == "none"
\* a NULL signature column
Null == <<>>

\* SpecHistory: versions of a document, pages of at most MaxCount entries
HistoryVersions == 3
MaxCount == 3

(* ---------------- state ---------------- *)
VARIABLES
    document,           \* table document: uuid -> row (exists = FALSE: no row)
    document_version,   \* table document_version: set of rows
    document_status,    \* table document_status: set of rows
    status_heads,       \* table status_heads: set of rows (uuid, name, id)
    acl,                \* table acl: set of rows (uuid, uri, permissions)
    acl_audit,          \* table acl_audit: sequence of rows (uuid, state)
    delete_record,      \* table delete_record: sequence of rows
    lock,               \* row lock of each document row: holder or None
    tx,                 \* per client: the call in flight and its transaction
    archiver,           \* per archiver worker: its claim
    objects,            \* object store: key -> blob, only the keys written
    deleter,            \* the deleter's claim: a uuid or None
    returned,           \* per uuid: the largest version Update has returned,
                        \* and the payload of the call that returned it
    document_schema,    \* table document_schema: set of rows (name, version)
    active_schemas,     \* table active_schemas: set of rows (name, version)
    sent,               \* the notifications pg_notify has sent, in order
    listener,           \* RunListener: its position, context and connection
    pending,            \* notifications waiting on the listener's connection
    fed,                \* the events the listener has passed to the fan-outs
    schema_call,        \* the call of the schema registry and its result
    subscribers         \* the fan-outs' subscribers and what each was delivered

vars == <<document, document_version, document_status, status_heads, acl,
          acl_audit, delete_record, lock, tx, archiver, objects, deleter,
          returned, document_schema, active_schemas, sent, listener, pending,
          fed, schema_call, subscribers>>

\* the schema registry, the listener and the fan-outs
notifyVars == <<document_schema, active_schemas, sent, listener, pending, fed,
                schema_call, subscribers>>

\* the document store, its workers and its callers
storeVars == <<document, document_version, document_status, status_heads, acl,
               acl_audit, delete_record, lock, tx, archiver, objects, deleter,
               returned>>

tables == <<document, document_version, document_status, status_heads, acl,
            acl_audit, delete_record>>

(* ---------------- rows ---------------- *)
\* no row for a uuid (pgx.ErrNoRows): Scan leaves the zero value of
\* postgres.GetDocumentForUpdateRow
NoRows == [exists |-> FALSE, uri |-> <<>>, current_version |-> 0, deleting |-> FALSE]

URIOf(data) == <<"uri", data>>

IdleWorker == [pc |-> "idle", kind |-> None, uuid |-> None, name |-> None,
               id |-> 0, signature |-> Null]

NoResult == [code |-> None, version |-> 0]

\* history of a call, kept by the specifications that compare calls: the
\* IfMatch and the payload flag of the request, the document row when the
\* call started, the clients whose calls were in flight during this one,
\* the status list, the ACL list and the default ACL list of the request, and
\* the number of audit entries when the call committed
NoHist == [ifMatch |-> 0, payload |-> FALSE, began |-> NoRows, peers |-> {},
           status |-> <<>>, acl |-> <<>>, defaultACL |-> <<>>, audit |-> 0]

\* RunListener before its first runListener: no connection, nothing listened
\* to; losses counts the connection errors it has met, since is the number
\* of notifications sent before its LISTENs were last complete
NoListener == [pc |-> "acquire", ctx |-> "live", listening |-> {},
               losses |-> 0, since |-> 0]

\* a delivery channel nobody has subscribed with
NoSubscriber == [state |-> "none", fanout |-> None, ready |-> FALSE,
                 received |-> <<>>]

\* the schema registry with no call in flight
NoSchemaCall == [op |-> None, name |-> None, code |-> None, before |-> {},
                 emitted |-> <<>>]

\* a client with no call in flight
IdleTx == [op |-> None, pc |-> "idle", uuid |-> None, info |-> NoRows,
           result |-> NoResult, hist |-> NoHist]

\* the writes of a transaction that has written nothing
NoWrites == [docW |-> {}, versions |-> {}, statuses |-> {}, headsW |-> {},
             aclDel |-> {}, aclUp |-> {}, audits |-> <<>>, delrec |-> <<>>]

Init ==
    /\ document = [u \in UUIDs |-> NoRows]
    /\ document_version = {}
    /\ document_status = {}
    /\ status_heads = {}
    /\ acl = {}
    /\ acl_audit = <<>>
    /\ delete_record = <<>>
    /\ lock = [u \in UUIDs |-> None]
    /\ tx = [c \in Clients |-> IdleTx]
    /\ archiver = [w \in Workers |-> IdleWorker]
    /\ objects = {}
    /\ deleter = None
    /\ returned = [u \in UUIDs |-> [version |-> 0, data |-> None]]
    /\ document_schema = {}
    /\ active_schemas = {}
    /\ sent = <<>>
    /\ listener = NoListener
    /\ pending = <<>>
    /\ fed = <<>>
    /\ schema_call = NoSchemaCall
    /\ subscribers = [s \in Subs |-> NoSubscriber]

(* ---------------- what a transaction with writes t sees ---------------- *)
DocExists(t, u) == IF t.docW # {} THEN TRUE ELSE document[u].exists

HeadsOf(t, u) ==
    {h \in status_heads : h.uuid = u /\ ~ \E w \in t.headsW : w.name = h.name}
    \cup t.headsW

\* the acl rows of document u
ACLOf(t, u) ==
    {a \in acl : a.uuid = u /\ a.uri \notin t.aclDel
                 /\ ~ \E w \in t.aclUp : w.uri = a.uri}
    \cup t.aclUp

\* a statement of c that writes a row of document u needs u's row lock
CanLock(c, u) == lock[u] \in {None, c}

(* ---------------- queries ---------------- *)
GetDocumentForUpdate(u) == document[u]

\* a SELECT that takes no row lock
ForUpdateMissing(info) == FALSE

\* GetDocumentForUpdate: FOR UPDATE locks the row the query selects
ForUpdate(info) == info.exists

\* SELECT name, id FROM status_heads WHERE uuid = $1, folded into the
\* statusHeads map of Update (a missing name reads as 0)
GetDocumentHeads(t, u) ==
    [n \in Names |->
        IF \E h \in HeadsOf(t, u) : h.name = n
        THEN (CHOOSE h \in HeadsOf(t, u) : h.name = n).id
        ELSE 0]

\* GetDocumentData: the data of the version row the document row names as
\* current (no row: pgx.ErrNoRows)
GetDocumentData(u) ==
    {v.data : v \in {x \in document_version :
                        /\ x.uuid = u /\ document[u].exists
                        /\ x.version = document[u].current_version}}

\* GetFullDocumentHeads: the status rows the status heads of u name
GetFullDocumentHeads(u) ==
    {s \in document_status :
        \E h \in status_heads :
            h.uuid = u /\ s.uuid = h.uuid /\ s.name = h.name /\ s.id = h.id}

\* the join without "AND $2::text = ANY(permissions)"
CheckPermissionRowsAnyPermission(u, uris, permission) ==
    IF ~ document[u].exists THEN {}
    ELSE LET matching == {a \in acl : a.uuid = u /\ a.uri \in uris}
         IN IF matching = {} THEN {FALSE} ELSE {TRUE}

\* the query CheckPermission: has_access of the rows of document d LEFT JOIN
\* acl, one row for each acl row of the document whose uri is one of uris and
\* whose permissions hold permission, and one row of NULLs when there is none
CheckPermissionRows(u, uris, permission) ==
    IF ~ document[u].exists THEN {}
    ELSE LET matching == {a \in acl : /\ a.uuid = u /\ a.uri \in uris
                                      /\ permission \in a.permissions}
         IN IF matching = {} THEN {FALSE} ELSE {TRUE : a \in matching}

\* PGDocStore.CheckPermission: the results it can return, from the row
\* QueryRow scans (pgx.ErrNoRows when there is none)
CheckPermission(u, uris, permission) ==
    LET rows == CheckPermissionRows(u, uris, permission)
    IN IF rows = {} THEN {"NoSuchDocument"}
       ELSE {IF access THEN "Allowed" ELSE "Denied" : access \in rows}

\* GetDocumentInfo: the document row (pgx.ErrNoRows when there is none)
GetDocumentInfo(u) == document[u]

\* the DocumentMeta with no field set
NoMeta == [code |-> "OK", deleting |-> FALSE, current_version |-> 0,
           statuses |-> {}, acl |-> {}]

\* GetDocumentMeta without "if info.Deleting"
GetDocumentMetaOfDeleting(u) ==
    LET info == GetDocumentInfo(u)
    IN IF ~ info.exists THEN [NoMeta EXCEPT !.code = "NotFound"]
       ELSE [NoMeta EXCEPT
               !.current_version = info.current_version,
               !.deleting = info.deleting,
               !.statuses = {[name |-> h.name, id |-> h.id, version |-> h.version] :
                             h \in GetFullDocumentHeads(u)}]

\* PGDocStore.GetDocumentMeta: what it returns; it sets CurrentVersion,
\* Statuses and Deleting (and the timestamps) and no other field
GetDocumentMeta(u) ==
    LET info == GetDocumentInfo(u)
    IN IF ~ info.exists THEN [NoMeta EXCEPT !.code = "NotFound"]
       ELSE IF info.deleting THEN [NoMeta EXCEPT !.deleting = TRUE]
       ELSE [NoMeta EXCEPT
               !.current_version = info.current_version,
               !.deleting = info.deleting,
               !.statuses = {[name |-> h.name, id |-> h.id, version |-> h.version] :
                             h \in GetFullDocumentHeads(u)}]

\* the first n rows of the set of version rows S in ORDER BY version DESC
RECURSIVE OrderByVersionDesc(_, _)
OrderByVersionDesc(S, n) ==
    IF n <= 0 \/ S = {} THEN <<>>
    ELSE LET first == CHOOSE v \in S : \A x \in S : x.version <= v.version
         IN <<first>> \o OrderByVersionDesc(S \ {first}, n - 1)

\* the query with "version <= $2" in place of "version < $2"
GetVersionsInclusive(uuid, before, count) ==
    OrderByVersionDesc({v \in document_version :
                           v.uuid = uuid /\ (before = 0 \/ v.version <= before)},
                       count)

\* GetVersions: WHERE uuid = $1 AND ($2 = 0 OR version < $2)
\* ORDER BY version DESC LIMIT $3
GetVersions(uuid, before, count) ==
    OrderByVersionDesc({v \in document_version :
                           v.uuid = uuid /\ (before = 0 \/ v.version < before)},
                       count)

\* PGDocStore.GetVersionHistory: a DocumentUpdate for each row, in the order
\* of the rows; the payload, the archived flag and the signature are dropped
GetVersionHistory(uuid, before, count) ==
    LET history == GetVersions(uuid, before, count)
    IN [i \in 1 .. Len(history) |-> [Version |-> history[i].version]]

(* ---------------- updatePreflight ---------------- *)
\* updatePreflight whose case -1 accepts a document that exists
updatePreflightCreateOverExisting(info, ifMatch) ==
    IF info.deleting THEN "DeleteLock"
    ELSE IF ifMatch = 0 \/ ifMatch = -1 THEN "OK"
    ELSE (IF info.current_version # ifMatch THEN "OptimisticLock" ELSE "OK")

\* updatePreflight whose default case accepts an IfMatch above the version
updatePreflightAtMost(info, ifMatch) ==
    IF info.deleting THEN "DeleteLock"
    ELSE IF ifMatch = 0 THEN "OK"
    ELSE IF ifMatch = -1
         THEN (IF info.exists THEN "OptimisticLock" ELSE "OK")
         ELSE (IF info.current_version > ifMatch THEN "OptimisticLock" ELSE "OK")

\* updatePreflight without "if info.Deleting"
updatePreflightNoDeleteLock(info, ifMatch) ==
    IF ifMatch = 0 THEN "OK"
    ELSE IF ifMatch = -1
         THEN (IF info.exists THEN "OptimisticLock" ELSE "OK")
         ELSE (IF info.current_version # ifMatch THEN "OptimisticLock" ELSE "OK")

\* updatePreflight whose default case accepts any IfMatch when there is no row
updatePreflightMissingAny(info, ifMatch) ==
    IF info.deleting THEN "DeleteLock"
    ELSE IF ifMatch = 0 THEN "OK"
    ELSE IF ifMatch = -1
         THEN (IF info.exists THEN "OptimisticLock" ELSE "OK")
         ELSE (IF info.exists /\ info.current_version # ifMatch
               THEN "OptimisticLock" ELSE "OK")

\* updatePreflight with the switch on ifMatch before "if info.Deleting"
updatePreflightIfMatchFirst(info, ifMatch) ==
    IF ifMatch = -1 /\ info.exists THEN "OptimisticLock"
    ELSE IF ifMatch \notin {0, -1} /\ info.current_version # ifMatch
         THEN "OptimisticLock"
    ELSE IF info.deleting THEN "DeleteLock"
    ELSE "OK"

\* the error code updatePreflight returns for the row it read, "OK" for none
updatePreflight(info, ifMatch) ==
    IF info.deleting THEN "DeleteLock"
    ELSE IF ifMatch = 0 THEN "OK"
    ELSE IF ifMatch = -1
         THEN (IF info.exists THEN "OptimisticLock" ELSE "OK")
         ELSE (IF info.current_version # ifMatch THEN "OptimisticLock" ELSE "OK")

(* ---------------- ending a call ---------------- *)
\* the call of c has returned code (and version, from Update)
Finish(c, code, version) ==
    [tx[c] EXCEPT !.pc = "done", !.info = NoRows,
                  !.result = [code |-> code, version |-> version]]

\* the history with field f set to v, when the specification keeps one
Hist(track, h, f, v) == IF track THEN [h EXCEPT ![f] = v] ELSE h

Range(q) == {q[i] : i \in 1 .. Len(q)}

Release(c) == [u \in UUIDs |-> IF lock[u] = c THEN None ELSE lock[u]]

\* tx.Commit: the writes t of the transaction reach the tables
Commit(t, u) ==
    /\ document' = IF t.docW # {}
                   THEN [document EXCEPT ![u] = CHOOSE r \in t.docW : TRUE]
                   ELSE document
    /\ document_version' = document_version \cup t.versions
    /\ document_status' = document_status \cup t.statuses
    /\ status_heads' = {h \in status_heads : h.uuid # u} \cup HeadsOf(t, u)
    /\ acl' = {a \in acl : a.uuid # u} \cup ACLOf(t, u)
    /\ acl_audit' = acl_audit \o t.audits
    /\ delete_record' = delete_record \o t.delrec

\* a return on error that leaves the transaction to commit
safeRollbackMissing(t, u) == Commit(t, u)

\* safeRollback after an error: the writes t of the transaction are dropped
safeRollback(t, u) == UNCHANGED tables

InFlight(c) == tx[c].pc \notin {"idle", "done"}

\* the call op(u) of client c starts: pool.Begin (payload: the request
\* carries a document)
Begin(c, u, op, payload, track) ==
    /\ tx[c].pc = "idle"
    /\ tx' = [d \in Clients |->
                IF d = c
                THEN [IdleTx EXCEPT !.op = op, !.pc = "preflight", !.uuid = u,
                        !.hist = IF track
                                 THEN [NoHist EXCEPT !.began = document[u],
                                         !.payload = payload,
                                         !.peers = {e \in Clients \ {c} : InFlight(e)}]
                                 ELSE NoHist]
                ELSE IF InFlight(d) /\ track
                     THEN [tx[d] EXCEPT !.hist.peers = @ \cup {c}]
                ELSE tx[d]]
    /\ UNCHANGED <<tables, lock, archiver, objects, deleter, returned>>
    /\ UNCHANGED notifyVars

\* updatePreflight: GetDocumentForUpdate waits for and takes the row lock
\* when there is a row
Preflight(c, ifMatch, track) ==
    /\ tx[c].pc = "preflight"
    /\ LET u == tx[c].uuid
           info == GetDocumentForUpdate(u)
           code == updatePreflight(info, ifMatch)
           h == Hist(track, tx[c].hist, "ifMatch", ifMatch)
       IN /\ ForUpdate(info) => lock[u] = None
          /\ IF code # "OK"
             THEN /\ tx' = [tx EXCEPT ![c] = [Finish(c, code, 0) EXCEPT !.hist = h]]
                  /\ UNCHANGED lock
             ELSE IF tx[c].op = "delete" /\ ~ info.exists
             THEN \* Delete: "if !info.Exists { return nil }"
                  /\ tx' = [tx EXCEPT ![c] = [Finish(c, "OK", 0) EXCEPT !.hist = h]]
                  /\ UNCHANGED lock
             ELSE /\ tx' = [tx EXCEPT ![c] = [@ EXCEPT
                                 !.pc = IF tx[c].op = "delete" THEN "wait" ELSE "write",
                                 !.info = info, !.hist = h]]
                  /\ lock' = IF ForUpdate(info) THEN [lock EXCEPT ![u] = c] ELSE lock
    /\ UNCHANGED <<tables, archiver, objects, deleter, returned>>
    /\ UNCHANGED notifyVars

\* a cancelled context or a lost connection while the call waits (for the row
\* lock, or in the archive loop of Delete): the call returns the error
Abort(c, code) ==
    /\ InFlight(c)
    /\ tx' = [tx EXCEPT ![c] = Finish(c, code, 0)]
    /\ lock' = Release(c)
    /\ safeRollback(NoWrites, tx[c].uuid)
    /\ UNCHANGED <<archiver, objects, deleter, returned>>
    /\ UNCHANGED notifyVars

\* the caller has the result; the client may call again
Return(c) ==
    /\ tx[c].pc = "done"
    /\ tx' = [tx EXCEPT ![c] = IdleTx]
    /\ UNCHANGED <<tables, lock, archiver, objects, deleter, returned>>
    /\ UNCHANGED notifyVars

\* the transaction of c ends with code: Commit of its writes t, or rollback
End(c, t, code, version) ==
    /\ IF code = "OK" THEN Commit(t, tx[c].uuid) ELSE safeRollback(t, tx[c].uuid)
    /\ lock' = Release(c)
    /\ UNCHANGED <<archiver, objects, deleter>>
    /\ UNCHANGED notifyVars

(* ---------------- Update ---------------- *)
\* create_version(uuid, version, ...): inserts the version row, whose key is
\* (uuid, version), and upserts the document row with the new current version
create_version(t, u, version, data) ==
    IF \E v \in document_version \cup t.versions : v.uuid = u /\ v.version = version
    THEN [err |-> TRUE, t |-> t]
    ELSE [err |-> FALSE,
          t |-> [t EXCEPT
                   !.docW = {[exists |-> TRUE, uri |-> URIOf(data),
                              current_version |-> version, deleting |-> FALSE]},
                   !.versions = @ \cup {[uuid |-> u, version |-> version, data |-> data,
                                         archived |-> FALSE, signature |-> Null]}]]

\* create_status(uuid, name, id, version, ...): inserts the status row, whose
\* key is (uuid, name, id) and which references the document row, and upserts
\* the status head of (uuid, name)
create_status(t, u, name, id, version) ==
    IF \/ ~ DocExists(t, u)
       \/ \E s \in document_status \cup t.statuses :
              s.uuid = u /\ s.name = name /\ s.id = id
    THEN [err |-> TRUE, t |-> t]
    ELSE [err |-> FALSE,
          t |-> [t EXCEPT
                   !.statuses = @ \cup {[uuid |-> u, name |-> name, id |-> id,
                                         version |-> version, archived |-> FALSE,
                                         signature |-> Null]},
                   !.headsW = {h \in @ : h.name # name}
                              \cup {[uuid |-> u, name |-> name, id |-> id]}]]

\* an id that leaves a gap
StatusIDSkipping(statusHeads, stat) == statusHeads[stat.name] + 2

\* the id Update gives the status entry stat: statusHeads[stat.Name] + 1
StatusID(statusHeads, stat) == statusHeads[stat.name] + 1

\* the version Update stores for the status entry stat
StatusVersion(stat, upVersion) == IF stat.version = 0 THEN upVersion ELSE stat.version

\* Update: "for i, stat := range update.Status", stopping at the first error
RECURSIVE StatusLoop(_, _, _, _, _, _)
StatusLoop(u, status, statusHeads, upVersion, i, r) ==
    IF i > Len(status) \/ r.err THEN r
    ELSE StatusLoop(u, status, statusHeads, upVersion, i + 1,
            create_status(r.t, u, status[i].name, StatusID(statusHeads, status[i]),
                          StatusVersion(status[i], upVersion)))

\* a DropACL that deletes no row
DropACLNothing(t, uri) == t

\* DropACL: DELETE FROM acl WHERE uuid = $1 AND uri = $2
DropACL(t, uri) == [t EXCEPT !.aclDel = @ \cup {uri}]

\* ACLUpdate: one upsert by (uuid, uri) for each batched entry, in order
RECURSIVE ACLUpdate(_, _, _, _)
ACLUpdate(t, u, acls, i) ==
    IF i > Len(acls) THEN t
    ELSE ACLUpdate([t EXCEPT !.aclUp = {a \in @ : a.uri # acls[i].uri}
                                       \cup {[uuid |-> u, uri |-> acls[i].uri,
                                              permissions |-> acls[i].permissions]}],
                   u, acls, i + 1)

\* updateACL: the loop over the entries, which drops at once and batches the rest
RECURSIVE ACLLoop(_, _, _, _)
ACLLoop(t, list, i, acls) ==
    IF i > Len(list) THEN [t |-> t, acls |-> acls]
    ELSE IF list[i].permissions = {}
         THEN ACLLoop(DropACL(t, list[i].uri), list, i + 1, acls)
         ELSE ACLLoop(t, list, i + 1, Append(acls, list[i]))

\* an audit row whose state is the acl rows before the writes of the call
InsertACLAuditEntryStale(t, u) ==
    [t EXCEPT !.audits = Append(@, [uuid |-> u,
                  state |-> {[uri |-> a.uri, permissions |-> a.permissions] :
                             a \in {x \in acl : x.uuid = u}}])]

\* InsertACLAuditEntry: one row whose state is the acl rows of the document
InsertACLAuditEntry(t, u) ==
    [t EXCEPT !.audits = Append(@, [uuid |-> u,
                  state |-> {[uri |-> a.uri, permissions |-> a.permissions] :
                             a \in ACLOf(t, u)}])]

\* updateACL without the batch of upserts
updateACLNoBatch(t, u, list, auth) ==
    LET l == ACLLoop(t, list, 1, <<>>)
    IN IF Len(list) = 0 THEN [err |-> FALSE, t |-> t]
       ELSE IF ~ auth THEN [err |-> TRUE, t |-> t]
       ELSE IF ~ DocExists(t, u) THEN [err |-> TRUE, t |-> l.t]
       ELSE [err |-> FALSE, t |-> InsertACLAuditEntry(l.t, u)]

\* updateACL; auth: GetAuthInfo finds auth info in the context.  The rows of
\* acl and acl_audit reference the document row.
updateACL(t, u, list, auth) ==
    LET l == ACLLoop(t, list, 1, <<>>)
    IN IF Len(list) = 0 THEN [err |-> FALSE, t |-> t]
       ELSE IF ~ auth THEN [err |-> TRUE, t |-> t]
       ELSE IF ~ DocExists(t, u) THEN [err |-> TRUE, t |-> l.t]
       ELSE [err |-> FALSE,
             t |-> InsertACLAuditEntry(ACLUpdate(l.t, u, l.acls, 1), u)]

\* up.Version without the increment
UpVersionStale(info, hasPayload) == info.current_version

\* Update: up.Version, the current version, after "up.Version++" for a payload
UpVersion(info, hasPayload) ==
    IF hasPayload THEN info.current_version + 1 ELSE info.current_version

\* the ACL list Update passes to updateACL
UpdateACLList(info, reqACL, defaultACL) ==
    IF Len(reqACL) = 0 /\ ~ info.exists THEN defaultACL ELSE reqACL

\* Update from the return of updatePreflight to its own return, for a request
\* with the document data (when hasPayload), the status list, reqACL and
\* defaultACL; fault = k: the k-th of CreateVersion, GetDocumentHeads and
\* CreateStatus, updateACL, Commit meets a storage fault (0: none does)
Update(info, u, data, hasPayload, status, reqACL, defaultACL, auth, fault) ==
    LET upVersion == UpVersion(info, hasPayload)
        r1 == IF hasPayload THEN create_version(NoWrites, u, upVersion, data)
              ELSE [err |-> FALSE, t |-> NoWrites]
        statusHeads == GetDocumentHeads(r1.t, u)
        r2 == StatusLoop(u, status, statusHeads, upVersion, 1, r1)
        list == UpdateACLList(info, reqACL, defaultACL)
        r3 == updateACL(r2.t, u, list, auth)
    IN IF hasPayload /\ fault = 1 THEN [code |-> "Fault", t |-> NoWrites, version |-> 0]
       ELSE IF r1.err THEN [code |-> "Internal", t |-> r1.t, version |-> 0]
       ELSE IF Len(status) > 0 /\ fault = 2
            THEN [code |-> "Fault", t |-> r1.t, version |-> 0]
       ELSE IF r2.err THEN [code |-> "Internal", t |-> r2.t, version |-> 0]
       ELSE IF Len(list) > 0 /\ fault = 3
            THEN [code |-> "Fault", t |-> r2.t, version |-> 0]
       ELSE IF r3.err
            THEN [code |-> IF auth THEN "Internal" ELSE "Unauthenticated",
                  t |-> r3.t, version |-> 0]
       ELSE IF fault = 4 THEN [code |-> "Fault", t |-> r3.t, version |-> 0]
       ELSE [code |-> "OK", t |-> r3.t, version |-> upVersion]

UpdateBegin(c, u, payload, track) == Begin(c, u, "update", payload, track)

UpdatePreflight(c, ifMatch, track) ==
    tx[c].op = "update" /\ Preflight(c, ifMatch, track)

\* maxVersion, maxStatusID: the bounds of the specification
UpdateWrite(c, maxVersion, maxStatusID, data, hasPayload, status, reqACL, defaultACL, auth, fault, track) ==
    /\ tx[c].op = "update" /\ tx[c].pc = "write"
    /\ LET u == tx[c].uuid
           info == tx[c].info
           list == UpdateACLList(info, reqACL, defaultACL)
           o == Update(info, u, data, hasPayload, status, reqACL, defaultACL,
                       auth, fault)
       IN /\ track => hasPayload = tx[c].hist.payload
          \* a fault is met by a statement the call runs
          /\ fault = 1 => hasPayload
          /\ fault = 2 => Len(status) > 0
          /\ fault = 3 => Len(list) > 0
          /\ hasPayload => info.current_version + 1 <= maxVersion
          /\ \A i \in 1 .. Len(status) :
                StatusID(GetDocumentHeads(NoWrites, u), status[i]) <= maxStatusID
          /\ Len(list) > 0 => Len(acl_audit) < MaxAudit
          /\ (hasPayload \/ Len(status) > 0 \/ Len(list) > 0) => CanLock(c, u)
          /\ End(c, o.t, o.code, o.version)
          /\ tx' = [tx EXCEPT ![c] = [Finish(c, o.code, o.version) EXCEPT
                                        !.hist = Hist(track,
                                                   Hist(track,
                                                     Hist(track,
                                                       Hist(track, @, "status", status),
                                                       "acl", reqACL),
                                                     "defaultACL", defaultACL),
                                                   "audit",
                                                   IF o.code = "OK"
                                                   THEN Len(acl_audit) + Len(o.t.audits)
                                                   ELSE 0)]]
          /\ returned' = IF o.code = "OK" /\ o.version > returned[u].version
                         THEN [returned EXCEPT ![u] =
                                 [version |-> o.version,
                                  data |-> IF hasPayload THEN data ELSE @.data]]
                         ELSE returned

(* ---------------- Delete ---------------- *)
\* the count of the unarchived versions alone
GetDocumentUnarchivedCountOfVersions(u) ==
    Cardinality({v \in document_version : v.uuid = u /\ ~ v.archived})

\* SELECT SUM(num) FROM (SELECT COUNT(*) ... document_status UNION
\* SELECT COUNT(*) ... document_version): UNION keeps one of two equal counts
GetDocumentUnarchivedCount(u) ==
    LET statuses == Cardinality({s \in document_status : s.uuid = u /\ ~ s.archived})
        versions == Cardinality({v \in document_version : v.uuid = u /\ ~ v.archived})
    IN IF statuses = versions THEN statuses ELSE statuses + versions

\* a delete record without the version of the document
InsertDeleteRecordNoVersion(t, u, uri, version) ==
    [t EXCEPT !.delrec = Append(@, [id |-> Len(delete_record) + 1, uuid |-> u,
                                    uri |-> uri, version |-> 0])]

\* InsertDeleteRecord: the row, with the next id of the sequence
InsertDeleteRecord(t, u, uri, version) ==
    [t EXCEPT !.delrec = Append(@, [id |-> Len(delete_record) + 1, uuid |-> u,
                                    uri |-> uri, version |-> version])]

\* delete_document(uuid, uri, record_id): marks the document row deleting and
\* stores the delete record's id on it, in the column GetDocumentForDeletion
\* reads it from
delete_document(t, u, uri, record_id) ==
    [t EXCEPT !.docW = {[document[u] EXCEPT !.deleting = TRUE,
                                            !.current_version = record_id]}]

\* Delete from the end of the archive loop to its return; fault = k: the
\* k-th of InsertDeleteRecord, DeleteDocument, Commit meets a storage fault
Delete(info, u, fault) ==
    LET r1 == InsertDeleteRecord(NoWrites, u, info.uri, info.current_version)
        r2 == delete_document(r1, u, info.uri, r1.delrec[1].id)
    IN IF fault = 1 THEN [code |-> "Fault", t |-> NoWrites]
       ELSE IF fault = 2 THEN [code |-> "Fault", t |-> r1]
       ELSE IF fault = 3 THEN [code |-> "Fault", t |-> r2]
       ELSE [code |-> "OK", t |-> r2]

DeleteBegin(c, u, track) == Begin(c, u, "delete", FALSE, track)

DeletePreflight(c, ifMatch, track) ==
    tx[c].op = "delete" /\ Preflight(c, ifMatch, track)

\* Delete: the loop on GetDocumentUnarchivedCount ends when the count is 0
\* (until then the call sleeps and asks again, or its context is done: Abort),
\* then the writes and Commit
DeleteWrite(c, fault) ==
    /\ tx[c].op = "delete" /\ tx[c].pc = "wait"
    /\ GetDocumentUnarchivedCount(tx[c].uuid) = 0
    /\ Len(delete_record) < MaxDeletes
    /\ LET o == Delete(tx[c].info, tx[c].uuid, fault)
       IN /\ End(c, o.t, o.code, 0)
          /\ tx' = [tx EXCEPT ![c] = Finish(c, o.code, 0)]
          /\ UNCHANGED returned

(* ---------------- Archiver ---------------- *)
\* the signature of a record chained to its parent's signature: a term that
\* determines both
Sign(record, parent) == <<record, parent>>

\* a selection without SKIP LOCKED that does not wait for a row another
\* worker holds
ClaimedByOthersIgnored(w) == {}

\* the rows other archiver workers hold FOR UPDATE
ClaimedByOthers(w) ==
    {[kind |-> archiver[x].kind, uuid |-> archiver[x].uuid,
      name |-> archiver[x].name, id |-> archiver[x].id] :
        x \in {y \in Workers \ {w} : archiver[y].pc # "idle"}}

VersionKey(v) == [kind |-> "v", uuid |-> v.uuid, name |-> None, id |-> v.version]
StatusKey(s) == [kind |-> "s", uuid |-> s.uuid, name |-> s.name, id |-> s.id]

\* the query without "AND (v.version = 1 OR p.archived = true)"
GetDocumentVersionForArchivingAnyOrder(w) ==
    {v \in document_version :
        ~ v.archived /\ VersionKey(v) \notin ClaimedByOthers(w)}

\* GetDocumentVersionForArchiving, before ORDER BY v.created ... LIMIT 1:
\* created is the time the caller of Update passed, so any candidate may be first
GetDocumentVersionForArchiving(w) ==
    {v \in document_version :
        /\ ~ v.archived
        /\ \/ v.version = 1
           \/ \E p \in document_version :
                 p.uuid = v.uuid /\ p.version = v.version - 1 /\ p.archived
        /\ VersionKey(v) \notin ClaimedByOthers(w)}

\* p.signature AS parent_signature of the LEFT JOIN (NULL without a parent row)
VersionParentSignature(v) ==
    IF \E p \in document_version : p.uuid = v.uuid /\ p.version = v.version - 1
    THEN (CHOOSE p \in document_version :
              p.uuid = v.uuid /\ p.version = v.version - 1).signature
    ELSE Null

\* GetDocumentStatusForArchiving, before ORDER BY s.created ... LIMIT 1
GetDocumentStatusForArchiving(w) ==
    {s \in document_status :
        /\ ~ s.archived
        /\ \E v \in document_version :
              v.uuid = s.uuid /\ v.version = s.version /\ v.signature # Null
        /\ \/ s.id = 1
           \/ \E p \in document_status :
                 p.uuid = s.uuid /\ p.name = s.name /\ p.id = s.id - 1 /\ p.archived
        /\ StatusKey(s) \notin ClaimedByOthers(w)}

StatusParentSignature(s) ==
    IF \E p \in document_status : p.uuid = s.uuid /\ p.name = s.name /\ p.id = s.id - 1
    THEN (CHOOSE p \in document_status :
              p.uuid = s.uuid /\ p.name = s.name /\ p.id = s.id - 1).signature
    ELSE Null

\* Put of the blob (the record and its signature) under the key of the record
Put(key, signature) ==
    {o \in objects : o.key # key} \cup {[key |-> key, signature |-> signature]}

\* steps 1 to 3 of the archiver for a version: claim, compose and sign, Put
\* (store: the specification keeps the contents of the object store)
ArchiverClaimVersion(w, store) ==
    /\ archiver[w].pc = "idle"
    /\ \E v \in GetDocumentVersionForArchiving(w) :
          LET signature == Sign(<<"v", v.uuid, v.version, v.data>>,
                                VersionParentSignature(v))
          IN /\ archiver' = [archiver EXCEPT ![w] =
                   [pc |-> "stored", kind |-> "v", uuid |-> v.uuid, name |-> None,
                    id |-> v.version, signature |-> signature]]
             /\ objects' = IF store
                           THEN Put(<<"v", v.uuid, None, v.version>>, signature)
                           ELSE objects
    /\ UNCHANGED <<tables, lock, tx, deleter, returned>>
    /\ UNCHANGED notifyVars

\* steps 1 to 3 of the archiver for a status
ArchiverClaimStatus(w, store) ==
    /\ archiver[w].pc = "idle"
    /\ \E s \in GetDocumentStatusForArchiving(w) :
          LET signature == Sign(<<"s", s.uuid, s.name, s.id, s.version>>,
                                StatusParentSignature(s))
          IN /\ archiver' = [archiver EXCEPT ![w] =
                   [pc |-> "stored", kind |-> "s", uuid |-> s.uuid, name |-> s.name,
                    id |-> s.id, signature |-> signature]]
             /\ objects' = IF store
                           THEN Put(<<"s", s.uuid, s.name, s.id>>, signature)
                           ELSE objects
    /\ UNCHANGED <<tables, lock, tx, deleter, returned>>
    /\ UNCHANGED notifyVars

\* UPDATE document_version SET archived = true, signature = $1
\* WHERE uuid = $2 AND version = $3
SetDocumentVersionAsArchived(signature, uuid, version) ==
    {IF v.uuid = uuid /\ v.version = version
     THEN [v EXCEPT !.archived = TRUE, !.signature = signature]
     ELSE v : v \in document_version}

\* the status rows the WHERE clause of SetDocumentStatusAsArchived selects
StatusArchiveMatch(s, uuid, id) == s.uuid = uuid /\ s.id = id

\* UPDATE document_status SET archived = true, signature = $1
\* WHERE uuid = $2 AND id = $3
SetDocumentStatusAsArchived(signature, uuid, id) ==
    {IF StatusArchiveMatch(s, uuid, id)
     THEN [s EXCEPT !.archived = TRUE, !.signature = signature]
     ELSE s : s \in document_status}

\* step 4: the row is marked and the claim released; the UPDATE waits
\* for the rows it selects that another worker holds (step 5, the archived
\* notification, is EmitArchived)
ArchiverMark(w) ==
    /\ archiver[w].pc = "stored"
    /\ LET a == archiver[w]
       IN IF a.kind = "v"
          THEN /\ document_version' =
                     SetDocumentVersionAsArchived(a.signature, a.uuid, a.id)
               /\ UNCHANGED document_status
          ELSE /\ \A s \in document_status :
                     StatusArchiveMatch(s, a.uuid, a.id)
                         => StatusKey(s) \notin ClaimedByOthers(w)
               /\ document_status' =
                     SetDocumentStatusAsArchived(a.signature, a.uuid, a.id)
               /\ UNCHANGED document_version
    /\ archiver' = [archiver EXCEPT ![w] = IdleWorker]
    /\ UNCHANGED <<document, status_heads, acl, acl_audit, delete_record,
                   lock, tx, objects, deleter, returned>>
    /\ UNCHANGED notifyVars

\* a transient error or a crash of the worker: the claim is released, what
\* was put in the object store stays
ArchiverFail(w) ==
    /\ archiver[w].pc # "idle"
    /\ archiver' = [archiver EXCEPT ![w] = IdleWorker]
    /\ UNCHANGED <<tables, lock, tx, objects, deleter, returned>>
    /\ UNCHANGED notifyVars

(* ---------------- Deleter ---------------- *)
\* GetDocumentForDeletion, before ORDER BY created ... LIMIT 1
GetDocumentForDeletion ==
    {u \in UUIDs : document[u].exists /\ document[u].deleting /\ lock[u] = None}

DeleterClaim ==
    /\ deleter = None
    /\ \E u \in GetDocumentForDeletion :
          /\ deleter' = u
          /\ lock' = [lock EXCEPT ![u] = "deleter"]
    /\ UNCHANGED <<tables, tx, archiver, objects, returned>>
    /\ UNCHANGED notifyVars

\* DELETE FROM document WHERE uuid = $1 AND deleting = true, with the
\* cascade to the rows that reference the document
FinaliseDelete(u) ==
    IF document[u].exists /\ document[u].deleting
    THEN /\ document' = [document EXCEPT ![u] = NoRows]
         /\ document_version' = {v \in document_version : v.uuid # u}
         /\ document_status' = {s \in document_status : s.uuid # u}
         /\ status_heads' = {h \in status_heads : h.uuid # u}
         /\ acl' = {a \in acl : a.uuid # u}
         /\ acl_audit' = SelectSeq(acl_audit, LAMBDA a : a.uuid # u)
         /\ UNCHANGED delete_record
    ELSE UNCHANGED tables

\* steps 1 to 3 of the deleter for the claimed document
DeleterFinalise ==
    /\ deleter # None
    /\ IF GetDocumentUnarchivedCount(deleter) = 0
       THEN FinaliseDelete(deleter)
       ELSE UNCHANGED tables
    /\ lock' = [lock EXCEPT ![deleter] = None]
    /\ deleter' = None
    /\ UNCHANGED <<tx, archiver, objects, returned>>
    /\ UNCHANGED notifyVars

(* ---------------- notifications ---------------- *)
Last(seq) == seq[Len(seq)]

\* json.Marshal of an event, and json.Unmarshal of a payload into an event
Marshal(e) == <<"json", e>>

NoEvent == [type |-> None, name |-> None]

Unmarshal(payload) ==
    IF payload[1] = "json"
    THEN [ok |-> TRUE, e |-> payload[2]]
    ELSE [ok |-> FALSE, e |-> NoEvent]

SchemaEvent(type, name) == [type |-> type, name |-> name]

ArchivedEvent(uuid) == [type |-> "archived", name |-> uuid]

\* SELECT pg_notify($1::text, $2::text): the k-th notification of a
\* transaction, queued until the transaction commits
Notify(channel, message, k) ==
    [id |-> Len(sent) + k, channel |-> channel, payload |-> message]

notifySchemaUpdated(e, k) == Notify(NotifySchemasUpdated, Marshal(e), k)

notifyArchived(e, k) == Notify(NotifyArchived, Marshal(e), k)

\* the commit of a transaction that queued the notifications ns: each goes
\* to the connections that listen on its channel at that moment
CommitNotifications(ns) ==
    /\ sent' = sent \o ns
    /\ pending' = pending \o SelectSeq(ns, LAMBDA n : n.channel \in listener.listening)

(* ---------------- schema registry ---------------- *)
\* INSERT INTO active_schemas(name, version) ... ON CONFLICT (name) DO UPDATE
\* SET version = excluded.version
ActivateSchema(name, version) ==
    {a \in active_schemas : a.name # name} \cup {[name |-> name, version |-> version]}

\* RegisterSchema: the version is stored when the request has a
\* specification, and activated when the request asks for it
RegisterSchema(name, version, specification, hasSpec, activate) ==
    /\ schema_call.op = None
    /\ Len(sent) < MaxEvents
    /\ LET registered == \E r \in document_schema : r.name = name /\ r.version = version
           code == IF hasSpec /\ registered THEN "Exists"
                   ELSE IF activate /\ ~ hasSpec /\ ~ registered THEN "Internal"
                   ELSE "OK"
           ns == IF activate
                 THEN <<notifySchemaUpdated(SchemaEvent("activation", name), 1)>>
                 ELSE <<>>
       IN IF code = "OK"
          THEN /\ document_schema' =
                     IF hasSpec
                     THEN document_schema \cup
                            {[name |-> name, version |-> version,
                              spec |-> Marshal(specification)]}
                     ELSE document_schema
               /\ active_schemas' = IF activate THEN ActivateSchema(name, version)
                                    ELSE active_schemas
               /\ CommitNotifications(ns)
               /\ schema_call' = [op |-> "register", name |-> name, code |-> "OK",
                                  before |-> active_schemas, emitted |-> ns]
          ELSE /\ schema_call' = [op |-> "register", name |-> name, code |-> code,
                                  before |-> active_schemas, emitted |-> <<>>]
               /\ UNCHANGED <<document_schema, active_schemas, sent, pending>>
    /\ UNCHANGED <<listener, fed, subscribers, storeVars>>

\* DELETE FROM active_schemas WHERE name = $1
DeactivateSchemaRows(name) == {a \in active_schemas : a.name # name}

DeactivateSchemaEventsOfActive(name) ==
    IF \E a \in active_schemas : a.name = name
    THEN <<notifySchemaUpdated(SchemaEvent("deactivation", name), 1)>>
    ELSE <<>>

\* the notifications DeactivateSchema queues in its transaction
DeactivateSchemaEvents(name) ==
    <<notifySchemaUpdated(SchemaEvent("deactivation", name), 1)>>

\* DeactivateSchema: Begin, q.DeactivateSchema, notifySchemaUpdated, Commit
DeactivateSchema(name) ==
    /\ schema_call.op = None
    /\ Len(sent) < MaxEvents
    /\ active_schemas' = DeactivateSchemaRows(name)
    /\ CommitNotifications(DeactivateSchemaEvents(name))
    /\ schema_call' = [op |-> "deactivate", name |-> name, code |-> "OK",
                       before |-> active_schemas,
                       emitted |-> DeactivateSchemaEvents(name)]
    /\ UNCHANGED <<document_schema, listener, fed, subscribers, storeVars>>

\* the rows of GetActiveSchemas, the active schemas joined with their
\* specification, in some order
RECURSIVE GetActiveSchemasRows(_)
GetActiveSchemasRows(active) ==
    IF active = {} THEN <<>>
    ELSE LET a == CHOOSE x \in active : TRUE
             r == CHOOSE x \in document_schema :
                     x.name = a.name /\ x.version = a.version
         IN <<r>> \o GetActiveSchemasRows(active \ {a})

\* a nil *Schema
NilSchema == [nil |-> TRUE, Name |-> None, Version |-> None, Specification |-> None]

\* PGDocStore.GetActiveSchemas: res is made with len(rows) nil entries, and
\* the loop appends a Schema for each row
GetActiveSchemas ==
    LET rows == GetActiveSchemasRows(active_schemas)
    IN [i \in 1 .. Len(rows) |-> NilSchema]
       \o [i \in 1 .. Len(rows) |->
             [nil |-> FALSE, Name |-> rows[i].name, Version |-> rows[i].version,
              Specification |-> Unmarshal(rows[i].spec).e]]

\* the caller of the schema registry has the result
SchemaReturn ==
    /\ schema_call.op # None
    /\ schema_call' = NoSchemaCall
    /\ UNCHANGED <<document_schema, active_schemas, sent, listener, pending,
                   fed, subscribers, storeVars>>

\* step 5 of the archiver: the archived notification of a marked record
EmitArchived(u) ==
    /\ Len(sent) < MaxEvents
    /\ CommitNotifications(<<notifyArchived(ArchivedEvent(u), 1)>>)
    /\ UNCHANGED <<document_schema, active_schemas, schema_call, listener, fed,
                   subscribers, storeVars>>

(* ---------------- fan-out ---------------- *)
\* the subscribers registered with fan-out f
Receivers(S, f) == {s \in Subs : S[s].state = "registered" /\ S[s].fanout = f}

FanOutNotifyBlocking(S, f, x) ==
    [done |-> \A s \in Receivers(S, f) : S[s].ready,
     subscribers |-> [s \in Subs |->
        IF s \in Receivers(S, f) /\ S[s].ready
        THEN [S[s] EXCEPT !.received = Append(@, x)]
        ELSE S[s]]]

\* FanOut.Notify: a non-blocking send of x to the delivery channel of every
\* subscriber of fan-out f; done: the call has returned
FanOutNotify(S, f, x) ==
    [done |-> TRUE,
     subscribers |-> [s \in Subs |->
        IF s \in Receivers(S, f) /\ S[s].ready
        THEN [S[s] EXCEPT !.received = Append(@, x)]
        ELSE S[s]]]

SubscribeBackfill(s, f) ==
    /\ subscribers[s].state \in {"none", "ended"}
    /\ subscribers' = [subscribers EXCEPT ![s] =
            [@ EXCEPT !.state = "starting", !.fanout = f,
                      !.received = SelectSeq(fed, LAMBDA x : x.channel = f)]]
    /\ UNCHANGED <<document_schema, active_schemas, schema_call, sent, listener,
                   pending, fed, storeVars>>

\* OnArchivedUpdate, OnSchemaUpdate: "go fanout.Listen(ctx, ch, ...)", the
\* goroutine has not registered the subscriber yet
Subscribe(s, f) ==
    /\ subscribers[s].state \in {"none", "ended"}
    /\ subscribers' = [subscribers EXCEPT ![s] =
            [@ EXCEPT !.state = "starting", !.fanout = f]]
    /\ UNCHANGED <<document_schema, active_schemas, schema_call, sent, listener,
                   pending, fed, storeVars>>

OnArchivedUpdate(s) == Subscribe(s, NotifyArchived)

OnSchemaUpdate(s) == Subscribe(s, NotifySchemasUpdated)

\* FanOut.Listen registers the subscriber
FanOutListen(s) ==
    /\ subscribers[s].state = "starting"
    /\ subscribers' = [subscribers EXCEPT ![s] = [@ EXCEPT !.state = "registered"]]
    /\ UNCHANGED <<document_schema, active_schemas, schema_call, sent, listener,
                   pending, fed, storeVars>>

\* the context of the subscription is cancelled: the subscription ends
SubscriberCancel(s) ==
    /\ subscribers[s].state \in {"starting", "registered"}
    /\ subscribers' = [subscribers EXCEPT ![s] = [@ EXCEPT !.state = "ended"]]
    /\ UNCHANGED <<document_schema, active_schemas, schema_call, sent, listener,
                   pending, fed, storeVars>>

\* the receiver of the delivery channel starts or stops waiting on it
Receiver(s, ready) ==
    /\ subscribers[s].state # "none"
    /\ subscribers[s].ready # ready
    /\ subscribers' = [subscribers EXCEPT ![s] = [@ EXCEPT !.ready = ready]]
    /\ UNCHANGED <<document_schema, active_schemas, schema_call, sent, listener,
                   pending, fed, storeVars>>

(* ---------------- listener ---------------- *)
ListenChannelsArchivedOnly == <<NotifyArchived>>

\* runListener: "notifications := []NotifyChannel{...}"
ListenChannels == <<NotifyArchived, NotifySchemasUpdated>>

\* RunListener after runListener returned err: "if errors.Is(err,
\* context.Canceled) { return }", else the error is logged and time.Sleep
AfterError(err) == IF err = "Canceled" THEN "returned" ELSE "sleep"

\* ctx.Err()
CtxErr == IF listener.ctx = "canceled" THEN "Canceled" ELSE "DeadlineExceeded"

\* runListener returns err: conn.Release drops what the connection listened
\* to and what waited on it
RunListenerError(err, lost) ==
    /\ listener' = [listener EXCEPT !.pc = AfterError(err), !.listening = {},
                      !.losses = IF lost THEN @ + 1 ELSE @]
    /\ pending' = <<>>

\* pool.Acquire
ListenerAcquire ==
    /\ listener.pc = "acquire" /\ listener.ctx = "live"
    /\ listener' = [listener EXCEPT !.pc = "listen"]
    /\ UNCHANGED <<document_schema, active_schemas, schema_call, sent, pending,
                   fed, subscribers, storeVars>>

\* conn.Exec of the next LISTEN
ListenerListen ==
    /\ listener.pc = "listen" /\ listener.ctx = "live"
    /\ LET k == Cardinality(listener.listening) + 1
           all == k = Len(ListenChannels)
       IN listener' = [listener EXCEPT
              !.listening = @ \cup {ListenChannels[k]},
              !.pc = IF all THEN "wait" ELSE "listen",
              !.since = IF all THEN Len(sent) ELSE @]
    /\ UNCHANGED <<document_schema, active_schemas, schema_call, sent, pending,
                   fed, subscribers, storeVars>>

ListenerReceiveBlocking ==
    /\ listener.pc = "wait"
    /\ pending # <<>>
    /\ LET n == Head(pending)
           d == Unmarshal(n.payload)
           x == [id |-> n.id, channel |-> n.channel, e |-> d.e]
           o == FanOutNotifyBlocking(subscribers, n.channel, x)
       IN /\ pending' = Tail(pending)
          /\ IF d.ok
             THEN /\ fed' = Append(fed, x)
                  /\ subscribers' = o.subscribers
                  /\ listener' = [listener EXCEPT
                                    !.pc = IF o.done THEN "wait" ELSE "notify"]
             ELSE UNCHANGED <<fed, subscribers, listener>>
    /\ UNCHANGED <<document_schema, active_schemas, schema_call, sent, storeVars>>

\* WaitForNotification returns a notification: the payload is decoded and
\* the event passed to the fan-out of the channel; a payload that does not
\* decode is dropped
ListenerReceive ==
    /\ listener.pc = "wait"
    /\ pending # <<>>
    /\ LET n == Head(pending)
           d == Unmarshal(n.payload)
           x == [id |-> n.id, channel |-> n.channel, e |-> d.e]
           o == FanOutNotify(subscribers, n.channel, x)
       IN /\ pending' = Tail(pending)
          /\ IF d.ok
             THEN /\ fed' = Append(fed, x)
                  /\ subscribers' = o.subscribers
                  /\ listener' = [listener EXCEPT
                                    !.pc = IF o.done THEN "wait" ELSE "notify"]
             ELSE UNCHANGED <<fed, subscribers, listener>>
    /\ UNCHANGED <<document_schema, active_schemas, schema_call, sent, storeVars>>

\* Acquire, Exec or WaitForNotification fails because the connection or the
\* database is lost
ListenerConnectionLost ==
    /\ listener.pc \in {"acquire", "listen", "wait"}
    /\ listener.losses < MaxLosses
    /\ RunListenerError("ConnectionLost", TRUE)
    /\ UNCHANGED <<document_schema, active_schemas, schema_call, sent, fed,
                   subscribers, storeVars>>

\* Acquire, Exec or WaitForNotification fails because ctx is done
ListenerContextDone ==
    /\ listener.pc \in {"acquire", "listen", "wait"}
    /\ listener.ctx # "live"
    /\ RunListenerError(CtxErr, FALSE)
    /\ UNCHANGED <<document_schema, active_schemas, schema_call, sent, fed,
                   subscribers, storeVars>>

\* time.Sleep(5 * time.Second) is over: the next runListener
ListenerWake ==
    /\ listener.pc = "sleep"
    /\ listener' = [listener EXCEPT !.pc = "acquire"]
    /\ UNCHANGED <<document_schema, active_schemas, schema_call, sent, pending,
                   fed, subscribers, storeVars>>

\* the context of RunListener is cancelled, or its deadline passes
ListenerContext(ctx) ==
    /\ listener.ctx = "live"
    /\ listener.pc # "returned"
    /\ listener' = [listener EXCEPT !.ctx = ctx]
    /\ UNCHANGED <<document_schema, active_schemas, schema_call, sent, pending,
                   fed, subscribers, storeVars>>

\* the steps of the goroutine that runs RunListener
RunListener ==
    \/ ListenerAcquire
    \/ ListenerListen
    \/ ListenerReceive
    \/ ListenerConnectionLost
    \/ ListenerContextDone
    \/ ListenerWake

(* ---------------- APIServer ---------------- *)
\* meta.Updates, as APIServer.GetHistory reads it: PGDocStore.GetDocumentMeta
\* sets no such field; a store that fills it lists the versions oldest first
MetaUpdates(u) ==
    LET meta == GetDocumentMeta(u)
        rows == {v \in document_version : v.uuid = u}
        versions == OrderByVersionDesc(rows, Cardinality(rows))
        n == Len(versions)
    IN IF meta.code # "OK" \/ meta.deleting THEN {<<>>}
       ELSE {<<>>, [i \in 1 .. n |-> [Version |-> versions[n + 1 - i].version]]}

\* "if len(res.Versions) == 10"
HistoryPageSize == 10

\* the loop of APIServer.GetHistory, from index i down, with res collected
RECURSIVE HistoryLoop(_, _, _, _)
HistoryLoop(updates, i, start, res) ==
    IF i = 0 THEN res
    ELSE IF updates[i].Version > start
         THEN HistoryLoop(updates, i - 1, start, res)
    ELSE LET versions == Append(res, [Version |-> updates[i].Version])
         IN IF Len(versions) = HistoryPageSize THEN versions
            ELSE HistoryLoop(updates, i - 1, start, versions)

\* APIServer.GetHistory for a document whose meta.Updates is updates
GetHistory(u, before, updates) ==
    IF before # 0 /\ before < 2
    THEN [code |-> "InvalidArgument", versions |-> <<>>]
    ELSE IF GetDocumentMeta(u).code = "NotFound"
    THEN [code |-> "NotFound", versions |-> <<>>]
    ELSE LET first == before - 1
             start == IF first = 0 THEN Last(updates).Version ELSE first
         IN [code |-> "OK",
             versions |-> HistoryLoop(updates, Len(updates), start, <<>>)]

(* ---------------- specifications ---------------- *)
\* each client sends its own payload
OwnData(c) == c

\* the Update calls of the clients in C, for documents of at most MV versions
\* and MS statuses of a name, with status lists in SL[c], ACL
\* lists in AL, default ACL lists in DL, auth info in the context as AUTH
\* says, and storage faults in F
Updates(C, MV, MS, SL, AL, DL, AUTH, F, track) ==
    \/ \E c \in C, u \in UUIDs, p \in IF track THEN BOOLEAN ELSE {FALSE} :
          UpdateBegin(c, u, p, track)
    \/ \E c \in C, m \in -1 .. MV : UpdatePreflight(c, m, track)
    \/ \E c \in C, p \in BOOLEAN, a \in AL, d \in DL,
          auth \in AUTH, fault \in F :
          \E l \in SL[c] :
          UpdateWrite(c, MV, MS, OwnData(c), p, l, a, d, auth, fault, track)

\* the Delete calls of the clients in C
Deletes(C, MV, F, track) ==
    \/ \E c \in C, u \in UUIDs : DeleteBegin(c, u, track)
    \/ \E c \in C, m \in -1 .. MV : DeletePreflight(c, m, track)
    \/ \E c \in C, fault \in F : DeleteWrite(c, fault)

Archivers(W, store) ==
    \/ \E w \in W : ArchiverClaimVersion(w, store)
    \/ \E w \in W : ArchiverClaimStatus(w, store)
    \/ \E w \in W : ArchiverMark(w)
    \/ \E w \in W : ArchiverFail(w)

Deleter ==
    \/ DeleterClaim
    \/ DeleterFinalise

NoACL == {<<>>}
NoFault == {0}
Usable == [name |-> "usable", version |-> 0]
Done == [name |-> "done", version |-> 0]

\* Spec: the store with two clients, of which the first sets statuses and
\* the second deletes, cancelled calls, an archiver worker and the deleter
SpecStatus == [c \in Clients |->
    IF c = "c1" THEN {<<>>, <<Usable>>} ELSE {<<>>}]

Next ==
    \/ Updates(Clients, MaxVersion, MaxStatusID, SpecStatus, NoACL,
               NoACL, {TRUE}, NoFault, FALSE)
    \/ Deletes({"c2"}, MaxVersion, NoFault, FALSE)
    \/ \E c \in Clients : Abort(c, "Canceled")
    \/ \E c \in Clients : Return(c)
    \/ Archivers({"a1"}, FALSE)
    \/ Deleter

Spec == Init /\ [][Next]_vars

\* SpecRace: two clients whose calls meet no storage fault, with the history
\* of each call; the first client also sets a status
RaceStatus == [c \in Clients |->
    IF c = "c1" THEN {<<>>, <<Usable>>} ELSE {<<>>}]

NextRace ==
    \/ Updates(Clients, RaceVersions, RaceStatusID, RaceStatus, NoACL,
               NoACL, {TRUE}, NoFault, TRUE)
    \/ \E c \in Clients : Return(c)

SpecRace == Init /\ [][NextRace]_vars

\* SpecArchive: one client, whose Updates carry statuses of two names and
\* that may pin a version, and an archiver worker
ArchiveStatus == [c \in Clients |->
    {<<>>, <<Usable>>, <<Done>>, <<Usable, Done>>, <<Usable, Usable>>,
     <<[name |-> "done", version |-> ArchiveVersions]>>}]

NextArchive ==
    \/ Updates({"c1"}, ArchiveVersions, ArchiveStatusID, ArchiveStatus,
               NoACL, NoACL, {TRUE}, NoFault, FALSE)
    \/ Return("c1")
    \/ Archivers({"a1"}, FALSE)

SpecArchive == Init /\ [][NextArchive]_vars

\* SpecACL: one client, whose Updates carry ACL lists, with storage faults
\* and cancelled calls, an archiver worker and the deleter
ACLStatus == [c \in Clients |->
    {<<>>, <<Usable>>}]

ACLLists ==
    {<<>>, <<[uri |-> "alice", permissions |-> {"r"}]>>,
     <<[uri |-> "alice", permissions |-> {}]>>}

DefaultACLLists == {<<>>, <<[uri |-> "bob", permissions |-> {"r", "w"}]>>}

NextACL ==
    \/ Updates({"c1"}, ACLVersions, ACLStatusID, ACLStatus, ACLLists,
               DefaultACLLists, BOOLEAN, 0 .. 4, FALSE)
    \/ Deletes({"c1"}, ACLVersions, 0 .. 3, FALSE)
    \/ Abort("c1", "Canceled")
    \/ Return("c1")
    \/ Archivers({"a1"}, FALSE)
    \/ Deleter

SpecACL == Init /\ [][NextACL]_vars

\* SpecDelete: a client that updates and a client that deletes, with the
\* history of each call, an archiver worker and the deleter; the Updates
\* carry no status
DeleteStatus == [c \in Clients |-> {<<>>}]

NextDelete ==
    \/ Updates({"c1"}, DeleteVersions, MaxStatusID, DeleteStatus, NoACL,
               NoACL, {TRUE}, NoFault, TRUE)
    \/ Deletes({"c2"}, DeleteVersions, NoFault, TRUE)
    \/ \E c \in Clients : Return(c)
    \/ ArchiverClaimVersion("a1", FALSE)
    \/ ArchiverMark("a1")
    \/ Deleter

SpecDelete == Init /\ [][NextDelete]_vars

\* SpecStore: one client, whose Updates carry a status of one of two names,
\* and two archiver workers with the object store
StoreStatus == [c \in Clients |->
    {<<>>, <<Usable>>, <<Done>>}]

NextStore ==
    \/ Updates({"c1"}, ACLVersions, ACLStatusID, StoreStatus, NoACL, NoACL,
               {TRUE}, NoFault, FALSE)
    \/ Return("c1")
    \/ Archivers(Workers, TRUE)

SpecStore == Init /\ [][NextStore]_vars

\* SpecGrant: one client, whose Updates carry ACL lists that may name a
\* grantee twice, with the history of each call
GrantStatus == [c \in Clients |-> {<<>>}]

GrantLists ==
    ACLLists \cup
    {<<[uri |-> "alice", permissions |-> {"r"}],
       [uri |-> "alice", permissions |-> {}]>>,
     <<[uri |-> "bob", permissions |-> {}],
       [uri |-> "alice", permissions |-> {"w"}]>>}

NextGrant ==
    \/ Updates({"c1"}, ACLVersions, ACLStatusID, GrantStatus, GrantLists,
               DefaultACLLists, BOOLEAN, NoFault, TRUE)
    \/ Return("c1")

SpecGrant == Init /\ [][NextGrant]_vars

\* SpecShare: two clients whose Updates carry ACL lists and default ACL
\* lists, with the history of each call
ShareLists ==
    {<<>>,
     <<[uri |-> "alice", permissions |-> {}],
       [uri |-> "bob", permissions |-> {"w"}]>>}

NextShare ==
    \/ Updates(Clients, ACLVersions, ACLStatusID, GrantStatus, ShareLists,
               DefaultACLLists, {TRUE}, NoFault, TRUE)
    \/ \E c \in Clients : Return(c)

SpecShare == Init /\ [][NextShare]_vars

\* SpecNotify: the fan-outs with two subscribers, fed by a listener whose
\* connection and context last
NotifySchemas == {"core"}

Senders ==
    \/ \E u \in UUIDs : EmitArchived(u)
    \/ \E name \in NotifySchemas : DeactivateSchema(name)
    \/ SchemaReturn

NextNotify ==
    \/ ListenerAcquire
    \/ ListenerListen
    \/ ListenerReceive
    \/ Senders
    \/ \E s \in Subs : OnArchivedUpdate(s)
    \/ \E s \in Subs : OnSchemaUpdate(s)
    \/ \E s \in Subs : FanOutListen(s)
    \/ \E s \in Subs : SubscriberCancel(s)
    \/ \E s \in Subs, ready \in BOOLEAN : Receiver(s, ready)

SpecNotify == Init /\ [][NextNotify]_vars

\* SpecListen: the goroutine of RunListener, which keeps running, with the
\* errors of its connection and the end of its context
NextListen ==
    \/ RunListener
    \/ \E ctx \in {"canceled", "deadline"} : ListenerContext(ctx)
    \/ Senders

SpecListen == Init /\ [][NextListen]_vars /\ WF_vars(RunListener)

\* SpecSchema: the calls of the schema registry
Specifications == {"cs1"}

NextSchema ==
    \/ \E name \in Schemas, version \in SchemaVersions,
          specification \in Specifications, hasSpec \in BOOLEAN,
          activate \in BOOLEAN :
          RegisterSchema(name, version, specification, hasSpec, activate)
    \/ \E name \in Schemas : DeactivateSchema(name)
    \/ SchemaReturn

SpecSchema == Init /\ [][NextSchema]_vars

\* SpecChain: one client, whose Updates carry status lists that may name a
\* status twice, with the history of each call
ChainStatus == [c \in Clients |->
    {<<>>, <<Usable>>, <<Usable, Usable>>, <<Usable, Done>>}]

NextChain ==
    \/ Updates({"c1"}, ArchiveVersions, ArchiveStatusID, ChainStatus, NoACL,
               NoACL, {TRUE}, NoFault, TRUE)
    \/ Return("c1")

SpecChain == Init /\ [][NextChain]_vars

\* SpecLive: a client whose Updates carry a status, which may pin a version
\* above every version the document gets, a client that deletes, and an
\* archiver worker that keeps running and meets no error; the loop of Delete
\* keeps asking for the count
MissingVersion == [name |-> "done", version |-> ACLVersions + 1]

LiveStatus == [c \in Clients |-> {<<>>, <<Usable>>, <<MissingVersion>>}]

ArchiverRuns(w) ==
    \/ ArchiverClaimVersion(w, FALSE)
    \/ ArchiverClaimStatus(w, FALSE)
    \/ ArchiverMark(w)

NextLive ==
    \/ Updates({"c1"}, ACLVersions, ACLStatusID, LiveStatus, NoACL, NoACL,
               {TRUE}, NoFault, FALSE)
    \/ Deletes({"c2"}, ACLVersions, NoFault, FALSE)
    \/ \E c \in Clients : Return(c)
    \/ ArchiverRuns("a1")

SpecLive ==
    /\ Init /\ [][NextLive]_vars
    /\ WF_vars(ArchiverRuns("a1"))
    /\ WF_vars(DeleteWrite("c2", 0))

\* SpecHistory: one client, whose Updates may carry a status, and an
\* archiver worker; the history of the document is read in every state
NextHistory ==
    \/ Updates({"c1"}, HistoryVersions, MaxStatusID, ACLStatus, NoACL,
               NoACL, {TRUE}, NoFault, FALSE)
    \/ Return("c1")
    \/ Archivers({"a1"}, FALSE)

SpecHistory == Init /\ [][NextHistory]_vars

(* ---------------- properties ---------------- *)
\* a Delete of document u has committed
Deleted(u) == \E i \in 1 .. Len(delete_record) : delete_record[i].uuid = u

VersionsOf(u) == {v \in document_version : v.uuid = u}

\* the Update calls of c and d for one document ran concurrently (each was in
\* flight at a moment the other was) and both have returned
ConcurrentUpdates(c, d) ==
    /\ c # d
    /\ tx[c].pc = "done" /\ tx[d].pc = "done"
    /\ tx[c].op = "update" /\ tx[d].op = "update"
    /\ tx[c].uuid = tx[d].uuid
    /\ d \in tx[c].hist.peers /\ c \in tx[d].hist.peers
    /\ tx[c].hist.payload /\ tx[d].hist.payload

\* both calls were made with IfMatch = n for a document that existed, not
\* deleting, with current version n
BothIfMatchCurrent(c, d, n) ==
    \A x \in {c, d} :
        /\ tx[x].hist.ifMatch = n
        /\ tx[x].hist.began.exists /\ ~ tx[x].hist.began.deleting
        /\ tx[x].hist.began.current_version = n

\* both calls were made with IfMatch = -1 for a uuid without a document
BothCreate(c, d) ==
    \A x \in {c, d} : tx[x].hist.ifMatch = -1 /\ ~ tx[x].hist.began.exists

\* C1: two concurrent Updates with a payload and IfMatch = N on a document
\* that exists, is not deleting and has current version N >= 1: one returns
\* success with version N + 1, the other returns OptimisticLock, and the
\* versions of the document are 1 .. N + 1, with one row N + 1 that holds the
\* payload of the call that succeeded
C1_OptimisticConcurrency ==
    \A c, d \in Clients : \A n \in 1 .. RaceVersions :
        (ConcurrentUpdates(c, d) /\ BothIfMatchCurrent(c, d, n)) =>
            \E w \in {c, d} :
                LET l == CHOOSE x \in {c, d} : x # w
                    u == tx[w].uuid
                IN /\ tx[w].result = [code |-> "OK", version |-> n + 1]
                   /\ tx[l].result.code = "OptimisticLock"
                   /\ document[u].current_version = n + 1
                   /\ {v.version : v \in VersionsOf(u)} = 1 .. n + 1
                   /\ Cardinality(VersionsOf(u)) = n + 1
                   /\ \A v \in VersionsOf(u) :
                          v.version = n + 1 => v.data = OwnData(w)

\* two such calls have returned, on a document of version 1
C1_Witness ==
    \E c, d \in Clients :
        /\ ConcurrentUpdates(c, d) /\ BothIfMatchCurrent(c, d, 1)
        /\ tx[c].result.code = "OK"

\* C2: two concurrent Updates with a payload and IfMatch = -1 for a uuid
\* without a document: one returns success with version 1, the other returns
\* an error and none of its rows is in the tables; the document has current
\* version 1 and its one version row holds the payload of the call that
\* succeeded
C2_ConcurrentCreate ==
    \A c, d \in Clients :
        (ConcurrentUpdates(c, d) /\ BothCreate(c, d)) =>
            \E w \in {c, d} :
                LET l == CHOOSE x \in {c, d} : x # w
                    u == tx[w].uuid
                IN /\ tx[w].result = [code |-> "OK", version |-> 1]
                   /\ tx[l].result.code \in {"OptimisticLock", "Internal"}
                   /\ document[u].exists /\ document[u].current_version = 1
                   /\ document[u].uri = URIOf(OwnData(w))
                   /\ {[version |-> v.version, data |-> v.data] : v \in VersionsOf(u)}
                         = {[version |-> 1, data |-> OwnData(w)]}
                   /\ \A s \in document_status :
                          s.uuid = u => \E e \in UNION {Range(q) : q \in RaceStatus[w]} :
                                           e.name = s.name
                   /\ \A h \in status_heads :
                          h.uuid = u => \E s \in document_status :
                                           s.uuid = u /\ s.name = h.name /\ s.id = h.id

\* both creating calls passed the precondition check, and the second to
\* write met the key of the version row
C2_Witness ==
    \E c, d \in Clients :
        /\ ConcurrentUpdates(c, d) /\ BothCreate(c, d)
        /\ tx[c].result.code = "OK" /\ tx[d].result.code = "Internal"

\* C3: the precondition check of Update on a document that is not deleting:
\* with IfMatch = 0 the call goes on; with IfMatch = -1 it goes on iff the
\* uuid has no document and returns OptimisticLock otherwise; with IfMatch > 0
\* it goes on iff the current version equals IfMatch and returns
\* OptimisticLock otherwise
C3_IfMatch ==
    [][\A c \in Clients :
          (/\ tx[c].op = "update"
           /\ tx[c].pc = "preflight" /\ tx'[c].pc # "preflight"
           /\ ~ document[tx[c].uuid].deleting)
              => LET m == tx'[c].hist.ifMatch
                     row == document[tx[c].uuid]
                     passes == \/ m = 0
                               \/ m = -1 /\ ~ row.exists
                               \/ m > 0 /\ row.current_version = m
                 IN IF passes
                    THEN tx'[c].pc = "write"
                    ELSE /\ tx'[c].pc = "done"
                         /\ tx'[c].result.code = "OptimisticLock"]_vars

\* Updates have returned OptimisticLock for IfMatch = -1 and for IfMatch > 0
C3_Witness ==
    \E c, d \in Clients :
        /\ tx[c].pc = "done" /\ tx[c].result.code = "OptimisticLock"
        /\ tx[d].pc = "done" /\ tx[d].result.code = "OptimisticLock"
        /\ tx[c].hist.ifMatch = -1 /\ tx[d].hist.ifMatch > 0

StatusesOf(u, n) == {s \in document_status : s.uuid = u /\ s.name = n}

\* C8: in every reachable state an archived version N > 1 of a document has
\* every lower version of the document archived: a version is marked
\* archived after the versions below it, in the order 1, 2, 3, ...
C8_VersionArchiveChain ==
    \A v \in document_version :
        v.archived =>
            \A n \in 1 .. v.version - 1 :
                \E p \in document_version :
                    p.uuid = v.uuid /\ p.version = n /\ p.archived

\* the versions of a document, two or more, are archived
C8_Witness ==
    \E u \in UUIDs :
        /\ Cardinality(VersionsOf(u)) >= 2
        /\ \A v \in VersionsOf(u) : v.archived

\* C9: an archived status id K > 1 of a (document, name) has status K - 1 of
\* the same (document, name) archived, and the version an archived status
\* pins is archived
C9_StatusArchiveChain ==
    \A s \in document_status :
        s.archived =>
            /\ s.id > 1 => \E p \in StatusesOf(s.uuid, s.name) :
                               p.id = s.id - 1 /\ p.archived
            /\ \E v \in VersionsOf(s.uuid) : v.version = s.version /\ v.archived

\* C10: for each (document, status name) the ids of the status rows are
\* 1 .. K, one row each (so each new row has the id of the head plus one),
\* and the head GetMeta reports for the name has id K (no head when K = 0)
C10_StatusChain ==
    \A u \in UUIDs, n \in Names :
        LET K == Cardinality(StatusesOf(u, n))
            heads == {s \in GetFullDocumentHeads(u) : s.name = n}
        IN /\ {s.id : s \in StatusesOf(u, n)} = 1 .. K
           /\ {s.id : s \in heads} = (IF K = 0 THEN {} ELSE {K})
           /\ Cardinality(heads) <= 1

\* a document with two statuses of one name and a status of the other
C10_Witness ==
    \E u \in UUIDs :
        /\ Cardinality(StatusesOf(u, "usable")) = 2
        /\ Cardinality(StatusesOf(u, "done")) >= 1

\* C11: a version or status row that is archived has a signature, and in
\* every step an archived row that stays in its table stays archived with the
\* signature it had
C11_ArchivedImmutable ==
    [][/\ \A x \in document_version' :
             /\ x.archived => x.signature # Null
             /\ \A v \in document_version :
                   (v.uuid = x.uuid /\ v.version = x.version /\ v.archived)
                       => (x.archived /\ x.signature = v.signature)
       /\ \A x \in document_status' :
             /\ x.archived => x.signature # Null
             /\ \A r \in document_status :
                   (r.uuid = x.uuid /\ r.name = x.name /\ r.id = x.id /\ r.archived)
                       => (x.archived /\ x.signature = r.signature)]_vars

\* the step in which the Update of client c returns success
UpdateSucceeds(c) ==
    /\ tx[c].op = "update" /\ tx[c].pc = "write"
    /\ tx'[c].pc = "done" /\ tx'[c].result.code = "OK"

\* the version rows of document u a step adds
NewVersions(u) == {v \in document_version' \ document_version : v.uuid = u}

\* C12: a successful Update with a payload creates exactly one version row,
\* numbered current + 1, and returns that number; a successful Update without
\* a payload creates no version row and returns the current version of the
\* document, which it leaves unchanged
C12_UpdateVersion ==
    [][\A c \in Clients :
         UpdateSucceeds(c) =>
            LET u == tx[c].uuid
                current == document[u].current_version
            IN IF tx[c].hist.payload
               THEN /\ Cardinality(NewVersions(u)) = 1
                    /\ \A v \in NewVersions(u) : v.version = current + 1
                    /\ tx'[c].result.version = current + 1
               ELSE /\ NewVersions(u) = {}
                    /\ document'[u].current_version = current
                    /\ tx'[c].result.version = current]_vars

\* the status rows of document u a step adds
NewStatuses(u) == {r \in document_status' \ document_status : r.uuid = u}

\* the version the claim gives the stored row of the status entry stat of a
\* call on a document whose current version is current
PinnedVersion(stat, payload, current) ==
    IF stat.version # 0 THEN stat.version
    ELSE IF payload THEN current + 1 ELSE current

\* C13: the rows a successful Update stores for its status list pin, for an
\* entry with pinned version 0, the version the same Update created, or the
\* document's current version when the Update has no payload, and for an
\* entry with another pinned version, that version
C13_StatusPin ==
    [][\A c \in Clients :
         UpdateSucceeds(c) =>
            LET u == tx[c].uuid
                current == document[u].current_version
                status == tx'[c].hist.status
                payload == tx[c].hist.payload
            IN /\ \A i \in 1 .. Len(status) :
                     \E r \in NewStatuses(u) :
                        /\ r.name = status[i].name
                        /\ r.version = PinnedVersion(status[i], payload, current)
               /\ \A r \in NewStatuses(u) :
                     \E i \in 1 .. Len(status) :
                        /\ r.name = status[i].name
                        /\ r.version = PinnedVersion(status[i], payload, current)]_vars

\* the step in which the Delete of client c, for a uuid that has no document,
\* returns from its precondition check
DeleteOfMissing(c) ==
    /\ tx[c].op = "delete" /\ tx[c].pc = "preflight"
    /\ ~ document[tx[c].uuid].exists
    /\ tx'[c].pc = "done"

\* C14 as stated: every Delete for a uuid that has no document returns success
\* and changes nothing
C14_DeleteMissingSucceeds ==
    [][\A c \in Clients :
         DeleteOfMissing(c) =>
            /\ tx'[c].result.code = "OK"
            /\ UNCHANGED tables]_vars

\* C14: a Delete for a uuid that has no document returns success when its
\* IfMatch is 0 or -1 and OptimisticLock when its IfMatch names a version; in
\* both cases it changes nothing, so that the same request repeated returns
\* the same
C14_DeleteMissing ==
    [][\A c \in Clients :
         DeleteOfMissing(c) =>
            /\ tx'[c].result.code =
                  IF tx'[c].hist.ifMatch \in {0, -1} THEN "OK" ELSE "OptimisticLock"
            /\ UNCHANGED tables]_vars

\* a Delete with IfMatch 1 for a uuid that has no document has returned
\* OptimisticLock
C14_Witness ==
    \E c \in Clients :
        /\ tx[c].op = "delete" /\ tx[c].pc = "done"
        /\ ~ document[tx[c].uuid].exists
        /\ tx[c].hist.ifMatch = 1
        /\ tx[c].result.code = "OptimisticLock"

\* the step in which the Delete of client c, of a document that exists,
\* returns success
DeleteSucceeds(c) ==
    /\ tx[c].op = "delete" /\ tx[c].pc = "wait"
    /\ tx'[c].pc = "done" /\ tx'[c].result.code = "OK"

\* C15: a successful Delete of an existing document adds exactly one delete
\* record, with the document's uri and current version, marks the document
\* row deleting, and leaves the document row in place and the version,
\* status, status head and acl rows as they are; a document row goes away
\* only in a step of the deleter
C15_DeleteFrame ==
    [][/\ \A c \in Clients :
            DeleteSucceeds(c) =>
               LET u == tx[c].uuid
               IN /\ Len(delete_record') = Len(delete_record) + 1
                  /\ SubSeq(delete_record', 1, Len(delete_record)) = delete_record
                  /\ delete_record'[Len(delete_record')].uuid = u
                  /\ delete_record'[Len(delete_record')].uri = document[u].uri
                  /\ delete_record'[Len(delete_record')].version
                        = document[u].current_version
                  /\ document[u].exists /\ ~ document[u].deleting
                  /\ document'[u].exists /\ document'[u].deleting
                  /\ document'[u].uri = document[u].uri
                  /\ UNCHANGED <<document_version, document_status, status_heads,
                                 acl, acl_audit>>
       /\ \A u \in UUIDs :
            (document[u].exists /\ ~ document'[u].exists) => deleter = u]_vars

\* a Delete has returned success for a document that has version, status and
\* acl rows: the delete record is there, the document is marked, the rows are
\* in place
C15_Witness ==
    \E c \in Clients :
        /\ tx[c].op = "delete" /\ tx[c].pc = "done" /\ tx[c].result.code = "OK"
        /\ Len(delete_record) = 1
        /\ document[tx[c].uuid].deleting
        /\ \E v \in document_version : v.uuid = tx[c].uuid
        /\ \E r \in document_status : r.uuid = tx[c].uuid
        /\ \E a \in acl : a.uuid = tx[c].uuid

\* the call of c is an Update and the call of d a Delete of the same document,
\* which existed and was not marked when each of them started, and each was
\* in flight at a moment the other was
ConcurrentUpdateDelete(c, d) ==
    /\ tx[c].op = "update" /\ tx[d].op = "delete"
    /\ tx[c].uuid = tx[d].uuid
    /\ d \in tx[c].hist.peers
    /\ tx[c].hist.began.exists /\ ~ tx[c].hist.began.deleting
    /\ tx[d].hist.began.exists /\ ~ tx[d].hist.began.deleting

\* the call of c has returned success
ReturnedOK(c) == tx[c].pc = "done" /\ tx[c].result.code = "OK"

\* the step in which the Update of c leaves its precondition check
UpdateChecks(c) ==
    tx[c].op = "update" /\ tx[c].pc = "preflight" /\ tx'[c].pc # "preflight"

\* the last delete record of document u
LastDeleteRecord(u) ==
    delete_record[CHOOSE i \in 1 .. Len(delete_record) :
                    /\ delete_record[i].uuid = u
                    /\ \A j \in i + 1 .. Len(delete_record) :
                          delete_record[j].uuid # u]

\* C16 as stated: of an Update and a Delete that run concurrently on an
\* existing document, the Update that commits first has produced the version
\* of the delete record, and the Update that checks its precondition after
\* the Delete's commit fails with DeleteLock; no version of a document is
\* greater than the version of a delete record of the document
C16_Serialized ==
    [][/\ \A c, d \in Clients :
            (ConcurrentUpdateDelete(c, d) /\ ReturnedOK(c) /\ DeleteSucceeds(d))
                => delete_record'[Len(delete_record')].version = tx[c].result.version
       /\ \A c, d \in Clients :
            (ConcurrentUpdateDelete(c, d) /\ ReturnedOK(d) /\ UpdateChecks(c))
                => (tx'[c].pc = "done" /\ tx'[c].result.code = "DeleteLock")
       /\ \A u \in UUIDs :
            Deleted(u)' =>
               \A v \in document_version' :
                  v.uuid = u => v.version <= LastDeleteRecord(u)'.version]_vars

\* C16: of an Update and a Delete that run concurrently on an existing
\* document, the Update that commits first has produced the version of the
\* delete record, and the Update that checks its precondition after the
\* Delete's commit fails with DeleteLock when the document row is still
\* there; while a document is marked deleting none of its versions is greater
\* than the version of its delete record
C16_SerializedWhileMarked ==
    [][/\ \A c, d \in Clients :
            (ConcurrentUpdateDelete(c, d) /\ ReturnedOK(c) /\ DeleteSucceeds(d))
                => delete_record'[Len(delete_record')].version = tx[c].result.version
       /\ \A c, d \in Clients :
            (/\ ConcurrentUpdateDelete(c, d) /\ ReturnedOK(d) /\ UpdateChecks(c)
             /\ document[tx[c].uuid].exists)
                => (tx'[c].pc = "done" /\ tx'[c].result.code = "DeleteLock")
       /\ \A u \in UUIDs :
            (document[u].deleting)' =>
               \A v \in document_version' :
                  v.uuid = u => v.version <= LastDeleteRecord(u)'.version]_vars

\* an Update and a Delete ran concurrently on an existing document, the
\* Delete returned success and the Update DeleteLock
C16_Witness ==
    \E c, d \in Clients :
        /\ ConcurrentUpdateDelete(c, d)
        /\ ReturnedOK(d)
        /\ tx[c].pc = "done" /\ tx[c].result.code = "DeleteLock"

\* the record archiver worker w holds
ClaimOf(w) == [kind |-> archiver[w].kind, uuid |-> archiver[w].uuid,
               name |-> archiver[w].name, id |-> archiver[w].id]

\* the record with key k is marked archived
ArchivedKey(k) ==
    \/ \E v \in document_version : VersionKey(v) = k /\ v.archived
    \/ \E r \in document_status : StatusKey(r) = k /\ r.archived

\* C17: no two archiver workers hold the same version or status record, and
\* the record a worker holds (which it has claimed and signed and will mark)
\* has not been marked archived, by the worker that claimed it before or by
\* another
C17_ArchiverExclusion ==
    /\ \A w, x \in Workers :
          (w # x /\ archiver[w].pc # "idle" /\ archiver[x].pc # "idle")
              => ClaimOf(w) # ClaimOf(x)
    /\ \A w \in Workers :
          archiver[w].pc # "idle" => ~ ArchivedKey(ClaimOf(w))

\* two workers hold records of one document at the same time, after a record
\* of it was marked archived
C17_Witness ==
    /\ \A w \in Workers : archiver[w].pc # "idle"
    /\ \A w, x \in Workers : archiver[w].uuid = archiver[x].uuid
    /\ \E v \in document_version : v.archived

\* the object store holds a blob under key
Stored(key) == \E o \in objects : o.key = key

\* the step in which worker w, after its Put, fails before the mark
ArchiverCrashes(w) ==
    /\ archiver[w].pc = "stored" /\ archiver'[w].pc = "idle"
    /\ UNCHANGED tables

\* C18: every version or status row that is marked archived has a blob under
\* its own key in the object store, and after a failure of a worker between
\* its Put and the mark the row it held is unarchived and is selected again
C18_BlobBeforeMark ==
    [][/\ \A v \in document_version' :
            v.archived => Stored(<<"v", v.uuid, None, v.version>>)'
       /\ \A r \in document_status' :
            r.archived => Stored(<<"s", r.uuid, r.name, r.id>>)'
       /\ \A w \in Workers :
            ArchiverCrashes(w) =>
               \/ \E v \in GetDocumentVersionForArchiving(w)' :
                     VersionKey(v) = ClaimOf(w)
               \/ \E r \in GetDocumentStatusForArchiving(w)' :
                     StatusKey(r) = ClaimOf(w)]_vars

\* grantee uri has an acl entry on document u that holds permission
Holds(u, uri, permission) ==
    \E a \in acl : a.uuid = u /\ a.uri = uri /\ permission \in a.permissions

\* C19: CheckPermission returns NoSuchDocument when there is no document row
\* with the uuid and only then; for a document that exists it returns Allowed
\* when one or more of the grantee uris hold the permission in the document's
\* acl, and Denied otherwise, as for an empty list of grantees
C19_CheckPermission ==
    \A u \in UUIDs, uris \in SUBSET Grantees, permission \in Permissions :
        CheckPermission(u, uris, permission) =
            {IF ~ document[u].exists THEN "NoSuchDocument"
             ELSE IF \E uri \in uris : Holds(u, uri, permission) THEN "Allowed"
             ELSE "Denied"}

\* two grantees hold a permission on a document, one of them holds no other:
\* CheckPermission allows the two together and denies the empty list
C19_Witness ==
    \E u \in UUIDs, permission \in Permissions :
        /\ \A uri \in Grantees : Holds(u, uri, permission)
        /\ \E uri \in Grantees, other \in Permissions : ~ Holds(u, uri, other)
        /\ CheckPermission(u, Grantees, permission) = {"Allowed"}
        /\ CheckPermission(u, {}, permission) = {"Denied"}

\* the ACL list names grantee uri with an empty permission set
NamesEmpty(list, uri) ==
    \E i \in 1 .. Len(list) : list[i].uri = uri /\ list[i].permissions = {}

\* the ACL list names grantee uri with a permission set that is not empty
NamesGranted(list, uri) ==
    \E i \in 1 .. Len(list) : list[i].uri = uri /\ list[i].permissions # {}

\* after the step, the document has no acl entry of the grantee and
\* CheckPermission for the grantee alone returns Denied for every permission
Removed(u, uri) ==
    /\ ~ \E a \in acl' : a.uuid = u /\ a.uri = uri
    /\ \A permission \in Permissions :
          CheckPermission(u, {uri}, permission)' = {"Denied"}

\* C20 as stated: no acl entry has an empty permission set, and a successful
\* Update whose ACL list names a grantee with an empty permission set leaves
\* the document without an entry of that grantee, for whom alone
\* CheckPermission then returns Denied for every permission
C20_EmptyRemoves ==
    [][/\ \A a \in acl' : a.permissions # {}
       /\ \A c \in Clients, uri \in Grantees :
            (UpdateSucceeds(c) /\ NamesEmpty(tx'[c].hist.acl, uri))
                => Removed(tx[c].uuid, uri)]_vars

\* C20: no acl entry has an empty permission set, and a successful Update
\* whose ACL list names a grantee with an empty permission set, and not with
\* another, leaves the document without an entry of that grantee, for whom
\* alone CheckPermission then returns Denied for every permission
C20_OnlyEmptyRemoves ==
    [][/\ \A a \in acl' : a.permissions # {}
       /\ \A c \in Clients, uri \in Grantees :
            (/\ UpdateSucceeds(c) /\ NamesEmpty(tx'[c].hist.acl, uri)
             /\ ~ NamesGranted(tx'[c].hist.acl, uri))
                => Removed(tx[c].uuid, uri)]_vars

\* an Update whose ACL list named alice with an empty permission set has
\* returned success for a document that had an entry of alice, and the entry
\* is gone
C20_Witness ==
    \E c \in Clients :
        /\ tx[c].op = "update" /\ ReturnedOK(c)
        /\ NamesEmpty(tx[c].hist.acl, "alice")
        /\ ~ NamesGranted(tx[c].hist.acl, "alice")
        /\ \E i \in 1 .. Len(acl_audit) :
              \E e \in acl_audit[i].state : e.uri = "alice"
        /\ ~ \E a \in acl : a.uuid = tx[c].uuid /\ a.uri = "alice"
        /\ CheckPermission(tx[c].uuid, {"alice"}, "r") = {"Denied"}

\* the acl rows of document u
ACLRows(u) == {a \in acl : a.uuid = u}

\* the acl rows the entries of an ACL list with a permission set that is not
\* empty make for document u
ListedRows(u, list) ==
    {[uuid |-> u, uri |-> list[i].uri, permissions |-> list[i].permissions] :
        i \in {j \in 1 .. Len(list) : list[j].permissions # {}}}

\* C21: a successful Update with an empty ACL list leaves the acl rows and
\* the audit log as they are when the document exists, whatever default ACL
\* the request carries, and when it creates the document the acl rows of the
\* document are the entries of the default ACL
C21_DefaultACL ==
    [][\A c \in Clients :
         (UpdateSucceeds(c) /\ tx'[c].hist.acl = <<>>) =>
            LET u == tx[c].uuid
            IN /\ document[u].exists => UNCHANGED <<acl, acl_audit>>
               /\ (~ document[u].exists /\ document'[u].exists)
                     => ACLRows(u)' = ListedRows(u, tx'[c].hist.defaultACL)]_vars

\* what an audit entry of document u holds when it is a snapshot of the acl
\* rows of the document after the step
Snapshot(u) ==
    [uuid |-> u,
     state |-> {[uri |-> a.uri, permissions |-> a.permissions] : a \in ACLRows(u)'}]

\* the Update of d started after the Update of c of the same document had
\* returned success, and c applied the ACL list d applies
SameListBefore(c, d) ==
    /\ c # d
    /\ tx[c].op = "update" /\ ReturnedOK(c)
    /\ tx[c].uuid = tx[d].uuid
    /\ c \notin tx[d].hist.peers
    /\ tx[c].hist.audit = Len(acl_audit)
    /\ tx[c].hist.acl = tx'[d].hist.acl

\* C22: a successful Update with an ACL list that is not empty appends
\* exactly one audit entry, a snapshot of the acl rows of the document after
\* the Update; when the Update before it applied the same list, the acl rows
\* after the second Update are those after the first
C22_ACLIdempotence ==
    [][\A d \in Clients :
         (UpdateSucceeds(d) /\ tx'[d].hist.acl # <<>>) =>
            /\ acl_audit' = Append(acl_audit, Snapshot(tx[d].uuid))
            /\ \A c \in Clients :
                  SameListBefore(c, d) =>
                     /\ acl' = acl
                     /\ Len(acl_audit) >= 1
                     /\ acl_audit'[Len(acl_audit)].state = Snapshot(tx[d].uuid).state]_vars

\* two successive Updates have applied the same ACL list, which drops a
\* grantee and grants another, to a document: there are two audit entries
C22_Witness ==
    \E c, d \in Clients :
        /\ c # d /\ tx[c].uuid = tx[d].uuid
        /\ tx[c].op = "update" /\ ReturnedOK(c)
        /\ tx[d].op = "update" /\ ReturnedOK(d)
        /\ c \notin tx[d].hist.peers
        /\ tx[c].hist.audit = 1 /\ tx[d].hist.audit = 2
        /\ tx[c].hist.acl = tx[d].hist.acl
        /\ NamesEmpty(tx[d].hist.acl, "alice") /\ NamesGranted(tx[d].hist.acl, "bob")
        /\ Len(acl_audit) = 2
        /\ acl_audit[1].state = acl_audit[2].state
        /\ acl # {}

\* the permission set of the last entry of the ACL list that names grantee
\* uri with a permission set that is not empty
LastGranted(list, uri) ==
    list[CHOOSE i \in 1 .. Len(list) :
            /\ list[i].uri = uri /\ list[i].permissions # {}
            /\ \A j \in i + 1 .. Len(list) :
                  ~ (list[j].uri = uri /\ list[j].permissions # {})].permissions

\* C23 as stated: after a successful Update with an ACL list that is not
\* empty, the acl rows of the document are exactly the entries of the list
\* with a permission set that is not empty
C23_ACLReplaced ==
    [][\A c \in Clients :
         (UpdateSucceeds(c) /\ tx'[c].hist.acl # <<>>) =>
            ACLRows(tx[c].uuid)' = ListedRows(tx[c].uuid, tx'[c].hist.acl)]_vars

\* C23: after a successful Update with an ACL list that is not empty, a
\* grantee the list names with a permission set that is not empty has one acl
\* row, with the last such set; a grantee the list names with an empty set
\* alone has none; the rows of the grantees the list does not name are as
\* they were
C23_ACLUpserted ==
    [][\A c \in Clients :
         (UpdateSucceeds(c) /\ tx'[c].hist.acl # <<>>) =>
            LET u == tx[c].uuid
                list == tx'[c].hist.acl
            IN \A uri \in Grantees :
                  {a \in ACLRows(u)' : a.uri = uri} =
                     IF NamesGranted(list, uri)
                     THEN {[uuid |-> u, uri |-> uri,
                            permissions |-> LastGranted(list, uri)]}
                     ELSE IF NamesEmpty(list, uri) THEN {}
                     ELSE {a \in ACLRows(u) : a.uri = uri}]_vars

\* an Update whose ACL list names alice alone has returned success for a
\* document that had an entry of bob: the document has the entries of both
C23_Witness ==
    \E c \in Clients :
        /\ tx[c].op = "update" /\ ReturnedOK(c)
        /\ NamesGranted(tx[c].hist.acl, "alice")
        /\ ~ NamesGranted(tx[c].hist.acl, "bob") /\ ~ NamesEmpty(tx[c].hist.acl, "bob")
        /\ \E a \in ACLRows(tx[c].uuid) : a.uri = "alice"
        /\ \E a \in ACLRows(tx[c].uuid) : a.uri = "bob"

\* C24: for a document marked deleting GetDocumentMeta returns a meta in
\* which deleting is set and nothing else, and for a uuid with no document row
\* it returns NotFound, and only then
C24_MinimalMeta ==
    \A u \in UUIDs :
        /\ (document[u].exists /\ document[u].deleting)
              => GetDocumentMeta(u) = [NoMeta EXCEPT !.deleting = TRUE]
        /\ GetDocumentMeta(u).code = "NotFound" <=> ~ document[u].exists

\* a document with a version row and a status head is marked deleting
C24_Witness ==
    \E u \in UUIDs :
        /\ document[u].exists /\ document[u].deleting
        /\ document[u].current_version # 0
        /\ \E h \in status_heads : h.uuid = u
        /\ \E v \in document_version : v.uuid = u

\* the status row of document u and name with the largest id
HeadRow(u, name) ==
    CHOOSE r \in document_status :
        /\ r.uuid = u /\ r.name = name
        /\ \A x \in document_status :
              (x.uuid = u /\ x.name = name) => x.id <= r.id

\* the meta of document u reports the current version of the document and,
\* for every status name with a status row, the id and the pinned version of
\* its head
MetaOfVersionAndHeads(u) ==
    /\ GetDocumentMeta(u).current_version = document[u].current_version
    /\ GetDocumentMeta(u).statuses =
          {[name |-> name, id |-> HeadRow(u, name).id,
            version |-> HeadRow(u, name).version] :
             name \in {r.name : r \in {x \in document_status : x.uuid = u}}}

\* C25: for a document that exists and is not marked deleting,
\* GetDocumentMeta reports the current version, the head of every status
\* name with a status row, and as the ACL set the acl rows of the document
C25_LiveMeta ==
    \A u \in UUIDs :
        (document[u].exists /\ ~ document[u].deleting) =>
            /\ GetDocumentMeta(u).code = "OK"
            /\ MetaOfVersionAndHeads(u)
            /\ GetDocumentMeta(u).acl =
                  {[uri |-> a.uri, permissions |-> a.permissions] : a \in ACLRows(u)}

\* C26: Publish never blocks. Whenever the listener has a notification to
\* pass on, the step that feeds it to the fan-out can be taken whatever the
\* subscribers do, and with that step Notify has returned (the listener waits
\* for the next notification); the event is appended to what every
\* registered subscriber of that fan-out that is ready has been delivered,
\* and a subscriber that is not ready keeps what it had, neither gaining the
\* event nor losing another
Feeds == fed' # fed

Delivered(s, x) == x \in Range(subscribers[s].received)

C26_PublishNonBlocking ==
    /\ [](listener.pc = "wait" /\ pending # <<>> => ENABLED ListenerReceive)
    /\ [][Feeds =>
            LET x == Last(fed')
            IN /\ fed' = Append(fed, x)
               /\ listener'.pc = "wait"
               /\ \A s \in Subs :
                     subscribers'[s].received =
                        IF /\ s \in Receivers(subscribers, x.channel)
                           /\ subscribers[s].ready
                        THEN Append(subscribers[s].received, x)
                        ELSE subscribers[s].received]_vars

\* the last event fed was delivered to one subscriber and not to another
\* subscriber of the same fan-out, which is not ready, and which had been
\* delivered an earlier event
C26_Witness ==
    /\ fed # <<>>
    /\ \E s \in Subs, t \in Subs :
          /\ s # t
          /\ {s, t} \subseteq Receivers(subscribers, Last(fed).channel)
          /\ Delivered(s, Last(fed))
          /\ ~ Delivered(t, Last(fed))
          /\ ~ subscribers[t].ready
          /\ \E y \in Range(subscribers[t].received) : y.id < Last(fed).id

\* C27: what a subscriber has been delivered changes only in the step that
\* publishes an event, only for a subscriber that is registered at that
\* moment (it has registered and its context is not cancelled), and only by
\* that very event: a subscriber that is starting or whose subscription has
\* ended is delivered nothing, and no event published earlier is ever
\* delivered later
C27_OnlyWhileSubscribed ==
    [][\A s \in Subs :
          subscribers'[s].received # subscribers[s].received =>
             /\ Feeds
             /\ fed' = Append(fed, Last(fed'))
             /\ subscribers[s].state = "registered"
             /\ subscribers[s].fanout = Last(fed').channel
             /\ subscribers'[s].received =
                   Append(subscribers[s].received, Last(fed'))]_vars

\* a subscriber whose subscription has ended was delivered an event while
\* it was registered, and has not been delivered a later event of the
\* same fan-out
C27_Witness ==
    \E s \in Subs :
       /\ subscribers[s].state = "ended"
       /\ \E x \in Range(fed), y \in Range(fed) :
             /\ x.channel = subscribers[s].fanout
             /\ y.channel = subscribers[s].fanout
             /\ y.id < x.id
             /\ Delivered(s, y)
             /\ ~ Delivered(s, x)

\* C28: once the context of RunListener is done, cancelled or past its
\* deadline, RunListener returns, wherever it is: waiting for a
\* notification, acquiring a connection, executing LISTEN or sleeping
C28_Terminates == (listener.ctx # "live") ~> (listener.pc = "returned")

\* C29: a connection error of the listener puts it to sleep, with nothing
\* listened to; from the sleep it comes, while its context is live, to wait
\* for notifications again, and whenever it waits it listens on both
\* channels, archived and schemas_updated, so that every notification sent
\* since its LISTENs were complete waits on its connection or has been fed
\* to the fan-out
FedNotification(n) == \E x \in Range(fed) : x.id = n.id /\ x.channel = n.channel

C29_Relisten ==
    /\ [][listener'.losses > listener.losses =>
             listener'.pc = "sleep" /\ listener'.listening = {}]_vars
    /\ [](listener.pc = "wait" =>
             /\ listener.listening = {NotifyArchived, NotifySchemasUpdated}
             /\ \A i \in listener.since + 1 .. Len(sent) :
                   sent[i] \in Range(pending) \/ FedNotification(sent[i]))
    /\ (listener.pc = "sleep" ~> (listener.pc = "wait" \/ listener.ctx # "live"))

\* the listener has lost its connection, waits for notifications again, and
\* has fed the fan-out a notification of the schemas_updated channel sent
\* after its LISTENs were complete again
C29_Witness ==
    /\ listener.losses >= 1
    /\ listener.pc = "wait"
    /\ listener.ctx = "live"
    /\ \E x \in Range(fed) :
          x.id > listener.since /\ x.channel = NotifySchemasUpdated

\* C30: DeactivateSchema for a name that has no active schema, because none
\* was ever activated or because it was deactivated before, returns without
\* error, leaves the rows of active_schemas as they were, and has sent, with
\* its commit, one notification on the schemas_updated channel whose payload
\* is the deactivation event of that name
HadActive(call) == \E a \in call.before : a.name = call.name

IsDeactivation(n, name) ==
    /\ n.channel = NotifySchemasUpdated
    /\ Unmarshal(n.payload).ok
    /\ Unmarshal(n.payload).e = [type |-> "deactivation", name |-> name]

C30_Permissive ==
    schema_call.op = "deactivate" /\ ~ HadActive(schema_call) =>
        /\ schema_call.code = "OK"
        /\ active_schemas = schema_call.before
        /\ Len(schema_call.emitted) = 1
        /\ IsDeactivation(schema_call.emitted[1], schema_call.name)
        /\ schema_call.emitted[1] \in Range(sent)

\* DeactivateSchema has returned for a name that has no active schema,
\* while a schema of another name is active
C30_Witness ==
    /\ schema_call.op = "deactivate"
    /\ ~ HadActive(schema_call)
    /\ schema_call.before # {}
    /\ IsDeactivation(Last(sent), schema_call.name)

\* the step in which worker w marks the status record it holds
MarksStatus(w) ==
    /\ archiver[w].pc = "stored" /\ archiver[w].kind = "s"
    /\ archiver'[w].pc = "idle"
    /\ document_status' # document_status

\* C31: the step that marks a status record archived changes only the row
\* of that document, status name and id: every status row of the document
\* with another name, also one with the same id, keeps its archived flag and
\* its signature
C31_MarkFrame ==
    [][\A w \in Workers :
          MarksStatus(w) =>
             \A s \in document_status :
                (s.uuid = archiver[w].uuid /\ s.name # archiver[w].name)
                    => s \in document_status']_vars

\* the unarchived version rows and the unarchived status rows of document u
UnarchivedVersions(u) == {v \in document_version : v.uuid = u /\ ~ v.archived}

UnarchivedStatuses(u) == {s \in document_status : s.uuid = u /\ ~ s.archived}

\* C32: GetDocumentUnarchivedCount of a document is the number of its
\* unarchived versions plus the number of its unarchived statuses, whatever
\* the two numbers are, also when they are equal and not zero
C32_UnarchivedCount ==
    \A u \in UUIDs :
       GetDocumentUnarchivedCount(u) =
          Cardinality(UnarchivedVersions(u)) + Cardinality(UnarchivedStatuses(u))

\* the status list names a status more than once
RepeatsName(list) ==
    \E i, j \in 1 .. Len(list) : i < j /\ list[i].name = list[j].name

\* the number of entries of the status list with name n
EntriesNamed(list, n) == Cardinality({i \in 1 .. Len(list) : list[i].name = n})

\* the highest id of the statuses of name n of document u, 0 when none
HeadOf(u, n) ==
    IF StatusesOf(u, n) = {} THEN 0
    ELSE CHOOSE i \in {s.id : s \in StatusesOf(u, n)} :
            \A s \in StatusesOf(u, n) : s.id <= i

\* the step in which the Update of client c, past its precondition check,
\* ends, with success or with an error
UpdateEnds(c) ==
    /\ tx[c].op = "update" /\ tx[c].pc = "write"
    /\ tx'[c].pc = "done"

\* C33: an Update of a document that exists, or that the Update creates,
\* whose status list names a status more than once, does not fail, and for
\* every name the new status rows have the ids head+1, head+2, ... up to
\* head plus the number of entries of that name
C33_SameNameStatuses ==
    [][\A c \in Clients :
          (/\ UpdateEnds(c)
           /\ RepeatsName(tx'[c].hist.status)
           /\ (tx[c].info.exists \/ tx[c].hist.payload)) =>
             /\ tx'[c].result.code = "OK"
             /\ \A n \in Names :
                   {r.id : r \in {x \in NewStatuses(tx[c].uuid) : x.name = n}} =
                      HeadOf(tx[c].uuid, n) + 1 ..
                         HeadOf(tx[c].uuid, n) + EntriesNamed(tx'[c].hist.status, n)]_vars

\* document u has the version row n; it is archived
HasVersion(u, n) == \E v \in document_version : v.uuid = u /\ v.version = n

VersionArchived(u, n) ==
    \E v \in document_version : v.uuid = u /\ v.version = n /\ v.archived

\* document u has the status row (name, i); it is archived
HasStatus(u, name, i) ==
    \E s \in document_status : s.uuid = u /\ s.name = name /\ s.id = i

StatusArchived(u, name, i) ==
    \E s \in document_status : s.uuid = u /\ s.name = name /\ s.id = i /\ s.archived

\* the Delete of client c waits for the archiver
DeleteWaits(c) == tx[c].op = "delete" /\ tx[c].pc = "wait"

\* C34 as stated: with an archiver that keeps running, every version row and
\* every status row is eventually archived, and a Delete that waits for the
\* archiver eventually returns
C34_AllArchived ==
    /\ \A u \in UUIDs, n \in 1 .. ACLVersions :
          HasVersion(u, n) ~> VersionArchived(u, n)
    /\ \A u \in UUIDs, name \in Names, i \in 1 .. ACLStatusID :
          HasStatus(u, name, i) ~> StatusArchived(u, name, i)
    /\ \A c \in Clients : DeleteWaits(c) ~> (tx[c].pc = "done")

\* C35: every status row a successful Update stores pins a version between 1
\* and the current version of the document after the Update, and a version
\* row of the document with that number exists
C35_PinsExistingVersion ==
    [][\A c \in Clients :
         UpdateSucceeds(c) =>
            \A r \in NewStatuses(tx[c].uuid) :
               /\ 1 <= r.version
               /\ r.version <= document'[tx[c].uuid].current_version
               /\ \E v \in document_version' :
                     v.uuid = r.uuid /\ v.version = r.version]_vars

\* the records of the two kinds that can advance, for worker w: unarchived,
\* first of their chain or with an archived parent, a status with its pinned
\* version archived, and not held by another worker
EligibleVersions(w) ==
    {v \in document_version :
        /\ ~ v.archived
        /\ \/ v.version = 1
           \/ VersionArchived(v.uuid, v.version - 1)
        /\ VersionKey(v) \notin ClaimedByOthers(w)}

EligibleStatuses(w) ==
    {s \in document_status :
        /\ ~ s.archived
        /\ \/ s.id = 1
           \/ StatusArchived(s.uuid, s.name, s.id - 1)
        /\ VersionArchived(s.uuid, s.version)
        /\ StatusKey(s) \notin ClaimedByOthers(w)}

\* the records that cannot advance, for worker w
Stuck(w) ==
    ({VersionKey(v) : v \in {x \in document_version : ~ x.archived}}
        \ {VersionKey(v) : v \in EligibleVersions(w)})
    \cup ({StatusKey(s) : s \in {x \in document_status : ~ x.archived}}
        \ {StatusKey(s) : s \in EligibleStatuses(w)})

\* C36: while some record cannot advance, an idle worker can select every
\* record that can advance, and a worker that has selected and stored a
\* record can mark it archived
C36_ChainsIndependent ==
    \A w \in Workers :
       Stuck(w) # {} =>
          /\ archiver[w].pc = "idle" =>
                /\ EligibleVersions(w) \subseteq GetDocumentVersionForArchiving(w)
                /\ EligibleStatuses(w) \subseteq GetDocumentStatusForArchiving(w)
          /\ archiver[w].pc = "stored" => ENABLED ArchiverMark(w)

\* the selection part of C36 alone
C36_Selection ==
    \A w \in Workers :
       (Stuck(w) # {} /\ archiver[w].pc = "idle") =>
          /\ EligibleVersions(w) \subseteq GetDocumentVersionForArchiving(w)
          /\ EligibleStatuses(w) \subseteq GetDocumentStatusForArchiving(w)

\* the pages of the history of document u, each asked with before set to
\* the last version of the page before it, until a page is empty or pages
\* pages have been read
RECURSIVE Pages(_, _, _, _)
Pages(u, before, count, pages) ==
    LET page == GetVersionHistory(u, before, count)
    IN IF page = <<>> \/ pages = 0 THEN <<>>
       ELSE page \o Pages(u, Last(page).Version, count, pages - 1)

\* C37: GetVersionHistory returns at most count entries, in strictly
\* descending version order, all versions of the document, below before
\* when before is above 0 and from the latest version when before is 0;
\* the pages read one after the other hold every version exactly once
C37_VersionHistory ==
    \A u \in UUIDs, before \in 0 .. HistoryVersions + 1, count \in 0 .. MaxCount :
       LET h == GetVersionHistory(u, before, count)
           all == {v.version : v \in VersionsOf(u)}
           pages == Pages(u, 0, count, HistoryVersions + 1)
       IN /\ Len(h) <= count
          /\ \A i \in 1 .. Len(h) - 1 : h[i].Version > h[i + 1].Version
          /\ \A i \in 1 .. Len(h) : h[i].Version \in all
          /\ before > 0 => \A i \in 1 .. Len(h) : h[i].Version < before
          /\ (before = 0 /\ count > 0 /\ all # {}) =>
                /\ h # <<>>
                /\ \A n \in all : n <= h[1].Version
          /\ count > 0 =>
                /\ Len(pages) = Cardinality(all)
                /\ {pages[i].Version : i \in 1 .. Len(pages)} = all

\* the document has three versions, read in two pages of two and one
C37_Witness ==
    \E u \in UUIDs :
       /\ Cardinality(VersionsOf(u)) = 3
       /\ Len(GetVersionHistory(u, 0, 2)) = 2
       /\ GetVersionHistory(u, GetVersionHistory(u, 0, 2)[2].Version, 2)
             = <<[Version |-> 1]>>

\* the IfMatch m of a request does not match a document that exists with
\* the current version current
IfMatchFails(m, current) == m = -1 \/ (m > 0 /\ m # current)

\* C38: the precondition check of an Update or a Delete on a document
\* marked deleting, with an IfMatch that does not match either, returns
\* DeleteLock and not OptimisticLock
C38_DeleteLockFirst ==
    [][\A c \in Clients :
          (/\ tx[c].pc = "preflight" /\ tx'[c].pc # "preflight"
           /\ document[tx[c].uuid].exists /\ document[tx[c].uuid].deleting
           /\ IfMatchFails(tx'[c].hist.ifMatch,
                           document[tx[c].uuid].current_version))
              => /\ tx'[c].pc = "done"
                 /\ tx'[c].result.code = "DeleteLock"]_vars

\* an Update with IfMatch -1 and a Delete with an IfMatch that is not the
\* current version have returned DeleteLock for a document that is still
\* marked deleting
C38_Witness ==
    \E c, d \in Clients :
        /\ tx[c].pc = "done" /\ tx[c].op = "update"
        /\ tx[d].pc = "done" /\ tx[d].op = "delete"
        /\ tx[c].uuid = tx[d].uuid
        /\ document[tx[c].uuid].deleting
        /\ tx[c].hist.ifMatch = -1
        /\ tx[d].hist.ifMatch > 0
        /\ tx[d].hist.ifMatch # document[tx[d].uuid].current_version
        /\ tx[c].result.code = "DeleteLock" /\ tx[d].result.code = "DeleteLock"

\* C39: for a document that exists, GetHistory rejects a before that is not
\* 0 and below 2; with before 0 it returns the latest versions, newest
\* first, at most 10; with before 2 or above it returns only versions below
\* before, newest first, at most 10
C39_GetHistory ==
    \A u \in UUIDs, before \in -1 .. HistoryVersions + 1 :
       (document[u].exists /\ ~ document[u].deleting) =>
          \A updates \in MetaUpdates(u) :
             LET r == GetHistory(u, before, updates)
                 h == r.versions
                 all == {v.version : v \in VersionsOf(u)}
             IN /\ (before # 0 /\ before < 2) <=> r.code = "InvalidArgument"
                /\ Len(h) <= HistoryPageSize
                /\ \A i \in 1 .. Len(h) - 1 : h[i].Version > h[i + 1].Version
                /\ \A i \in 1 .. Len(h) : h[i].Version \in all
                /\ before >= 2 => \A i \in 1 .. Len(h) : h[i].Version < before
                /\ (before = 0 /\ all # {}) =>
                      /\ h # <<>>
                      /\ \A n \in all : n <= h[1].Version

\* C40: the list GetActiveSchemas returns has one entry for each active
\* schema, none of them nil, with the name, the version and the decoded
\* specification of that schema
C40_ActiveSchemas ==
    LET res == GetActiveSchemas
    IN /\ Len(res) = Cardinality(active_schemas)
       /\ \A i \in 1 .. Len(res) :
             /\ ~ res[i].nil
             /\ \E a \in active_schemas :
                   a.name = res[i].Name /\ a.version = res[i].Version
             /\ \E r \in document_schema :
                   /\ r.name = res[i].Name /\ r.version = res[i].Version
                   /\ r.spec = Marshal(res[i].Specification)
       /\ \A a \in active_schemas :
             \E i \in 1 .. Len(res) :
                ~ res[i].nil /\ res[i].Name = a.name /\ res[i].Version = a.version

\* C5: a call that returns an error leaves every table as it was: the
\* tables change only in the step in which a call commits and returns without
\* error, and in no other step of a call
C5_Atomicity ==
    [][\A c \in Clients :
          (tx'[c] # tx[c] /\ ~ (tx'[c].pc = "done" /\ tx'[c].result.code = "OK"))
              => tables' = tables]_vars

\* an Update of an existing document has failed in updateACL for want of
\* auth info
C5_Witness ==
    \E c \in Clients :
        /\ tx[c].pc = "done" /\ tx[c].op = "update"
        /\ tx[c].result.code = "Unauthenticated"
        /\ document[tx[c].uuid].exists

\* C6: while the row of a document is marked deleting, every Update and
\* Delete whose precondition check runs returns DeleteLock there and changes
\* no table (a call whose context is cancelled before the check returns that
\* error)
C6_DeleteLock ==
    [][\A c \in Clients :
          (/\ tx[c].pc = "preflight" /\ tx'[c].pc # "preflight"
           /\ document[tx[c].uuid].exists /\ document[tx[c].uuid].deleting
           /\ tx'[c].result.code # "Canceled")
              => /\ tx'[c].pc = "done"
                 /\ tx'[c].result.code = "DeleteLock"
                 /\ tables' = tables]_vars

\* an Update and a Delete have returned DeleteLock for a document that is
\* still marked deleting
C6_Witness ==
    \E c, d \in Clients :
        /\ tx[c].pc = "done" /\ tx[c].op = "update"
        /\ tx[d].pc = "done" /\ tx[d].op = "delete"
        /\ tx[c].result.code = "DeleteLock" /\ tx[d].result.code = "DeleteLock"
        /\ tx[c].uuid = tx[d].uuid
        /\ document[tx[c].uuid].deleting

\* C7: the step that removes the row of a document starts in a state where
\* no version and no status of the document is unarchived
C7_DeleteGating ==
    [][\A u \in UUIDs :
          (document[u].exists /\ ~ document'[u].exists)
              => /\ \A v \in document_version : v.uuid = u => v.archived
                 /\ \A s \in document_status : s.uuid = u => s.archived]_vars

\* a document that had a version has been removed
C7_Witness ==
    \E u \in UUIDs :
        /\ ~ document[u].exists
        /\ \E i \in 1 .. Len(delete_record) :
              delete_record[i].uuid = u /\ delete_record[i].version >= 1

====
